---------------------------- MODULE Spec2Model ----------------------------
(***************************************************************************)
(* Model of the web3-fee-optimizer quote aggregation and decision engine:  *)
(*   - FeeOptimizationService (client/src/services/fee-optimization.ts)     *)
(*   - APIOrchestrator and BaseAPIService (services/middleware/             *)
(*     api-orchestrator.ts, held in src/unnamed/part_003)                   *)
(*                                                                         *)
(* Numbers.  Gas prices are whole gwei.  USD amounts are kept in units of   *)
(* 10^-6 USD so that (gwei * gasEstimate) / 1e9 * 2000 is an exact integer  *)
(* for the gas estimates used (multiples of 1000).  Confidence is kept in   *)
(* hundredths (0.7 is 70).  Time is in milliseconds, as Date.now().         *)
(***************************************************************************)
EXTENDS Integers, Sequences, FiniteSets, TLC

VARIABLES
    svcPc,      \* position of the analyzeSwap call: Idle, Fetching, Recommended, Failed
    quote,      \* the bundle getComprehensiveQuote resolved with (None before)
    outcome,    \* what analyzeQuoteData did with the bundle (None before)
    returned,   \* the SwapAnalysis analyzeSwap returned (None if none)
    thrown,     \* the Error analyzeSwap threw (None if none)
    svcEvents,  \* events emitted by FeeOptimizationService, in order
    listeners,  \* FeeOptimizationService.listeners: event -> its callbacks
    config,       \* the config object the orchestrator was constructed with
    gasServices,  \* APIOrchestrator.gasServices: the configured gas services
    unresponsive, \* services whose requests are never answered
    now,        \* Date.now()
    cache,      \* APIOrchestrator.cache: key -> None or [data, timestamp]
    calls,      \* the aggregator calls: position, sub-fetches, result
    cacheOps,   \* history: the cache reads and writes each call made
    healthChecks, \* the checkServiceHealth call: position, checks, result
    cleanupTimers, \* the intervals startCacheCleanup has set: when each is next due
    adapters,   \* each service's quote method: position, response body, result
    resultSets, \* what each fan-out method returned, once it has
    reqPc,      \* position of one makeRequest call: idle, fetching, waiting,
                \* resolved, rejected
    attempt,    \* makeRequest's loop variable
    lastError,  \* makeRequest's lastError (None while unassigned)
    reqResult,  \* what makeRequest resolved or rejected with (None before)
    attemptLog, \* history: the response each network attempt received
    delays,     \* history: the delays makeRequest has waited, in ms
    subscribers, \* the callbacks registered with APIOrchestrator.on
    notes,      \* history: the events the orchestrator forwarded
    hook,       \* useFeeOptimization's state: analysis, loading, error, serviceHealth
    hookCalls   \* the calls of the hook's analyzeSwap: the position of each

engineVars == <<svcPc, quote, outcome, returned, thrown, svcEvents, listeners>>

aggVars == <<config, gasServices, unresponsive, now, cache, calls, cacheOps, cleanupTimers>>

healthVars == <<healthChecks>>

hookVars == <<hook, hookCalls>>

adapterVars == <<adapters, resultSets>>

reqVars == <<reqPc, attempt, lastError, reqResult, attemptLog, delays,
             subscribers, notes>>

vars == <<svcPc, quote, outcome, returned, thrown, svcEvents, listeners,
          config, gasServices, unresponsive, now, cache, calls, cacheOps, healthChecks,
          cleanupTimers, adapters, resultSets,
          reqPc, attempt, lastError, reqResult, attemptLog, delays,
          subscribers, notes, hook, hookCalls>>

\* Values of different shapes are kept apart by their fields: "nothing yet" is
\* a record with the single field none, and a JavaScript field holding
\* undefined is a field the record does not have.
None == [none |-> TRUE]

-----------------------------------------------------------------------------
(* Bounds of the model *)

\* most L2 options one LI.FI response carries (data.routes is unbounded)
MaxL2Options == 2

\* aggregator calls made in one run
MaxCalls == 2

\* clock advances in one run
MaxTicks == 2

\* how many times startCacheCleanup is called
MaxTimers == 2

\* calls of the hook's analyzeSwap made in one run
MaxHookCalls == 3

\* the name of the error makeRequest rejects with
ExhaustedErrorName == "API failed after 3 attempts"

-----------------------------------------------------------------------------
(* Quote data (types TradeRequest, GasPriceData, DEXRoute, L2Option) *)

USD(n) == n * 1000000

GasServiceNames == <<"Blocknative", "Infura">>
DexServiceNames == <<"1inch", "ParaSwap">>
L2ServiceNames  == <<"LI.FI">>
L2Chains        == <<"arbitrum", "optimism", "base">>

\* forecast.next5Blocks values used: one with its minimum at the last index,
\* one with a tie for the minimum (index 4 and 5)
Forecasts == { <<66, 62, 64, 66, 56>>, <<64, 66, 36, 30, 30>> }

\* (standard, currentGwei) pairs: the provider cheaper by standard is the
\* dearer by currentGwei
GasPrices == { [standard |-> 50, currentGwei |-> 50],
               [standard |-> 40, currentGwei |-> 60] }

GasPriceData(src) ==
    { [source |-> src, standard |-> p.standard, currentGwei |-> p.currentGwei,
       forecast |-> [next5Blocks |-> f, confidence |-> c]] :
        p \in GasPrices, f \in Forecasts, c \in {70, 85} }

AmountStrings == {"1000", "2000"}

\* further amountOut values a response can carry: 2^53 and 2^53 + 1 (integer
\* strings past the integers a double holds exactly), and a field that is
\* not a number
WideAmountStrings ==
    AmountStrings \cup {"9007199254740992", "9007199254740993", "n/a"}

\* (gasEstimate, totalFeeUSD) pairs
RouteCosts == { [gasEstimate |-> 100000, totalFeeUSD |-> USD(2)],
                [gasEstimate |-> 250000, totalFeeUSD |-> USD(5)] }

DEXRouteOver(src, Amounts) ==
    { [source |-> src,
       route |-> [amountOut |-> a, gasEstimate |-> c.gasEstimate],
       fees |-> [totalFeeUSD |-> c.totalFeeUSD]] :
        a \in Amounts, c \in RouteCosts }

DEXRoute(src) == DEXRouteOver(src, AmountStrings)

L2Costs == {USD(0), USD(8), USD(25)}

L2Option(i) ==
    { [source |-> "LI.FI", toChain |-> L2Chains[i], totalCostUSD |-> c] :
        c \in L2Costs }

\* results of a fan-out over two services: the fulfilled ones, in service order
SettledPairs(First, Second) ==
    {<<>>} \cup { <<x>> : x \in First \cup Second }
           \cup { <<x, y>> : x \in First, y \in Second }

GasDataLists == SettledPairs(GasPriceData("Blocknative"), GasPriceData("Infura"))
DexRouteLists == SettledPairs(DEXRoute("1inch"), DEXRoute("ParaSwap"))

WideDexRouteLists ==
    SettledPairs(DEXRouteOver("1inch", WideAmountStrings),
                 DEXRouteOver("ParaSwap", WideAmountStrings))

\* one gas quote, from Blocknative
SingleGasDataLists == { <<g>> : g \in GasPriceData("Blocknative") }

L2OptionLists ==
    UNION { { s \in [1..n -> UNION {L2Option(i) : i \in 1..n}] :
                \A i \in 1..n : s[i] \in L2Option(i) } : n \in 0..MaxL2Options }

Quote(g, d, l) == [gasData |-> g, dexRoutes |-> d, l2Options |-> l]

-----------------------------------------------------------------------------
(* FeeOptimizationService.analyzeQuoteData and calculateWaitSavings *)

\* A JavaScript number: NaN, or a double holding the integer
\* hi * 10^9 + lo (0 <= lo < 10^9).
NaN == [nan |-> TRUE]

Double(hi, lo) == [nan |-> FALSE, hi |-> hi, lo |-> lo]

\* parseFloat on the amountOut strings of WideAmountStrings: the nearest
\* double (2^53 + 1 rounds to 2^53), NaN for a string that starts with no
\* number
parseFloat(s) ==
    CASE s = "1000" -> Double(0, 1000)
      [] s = "2000" -> Double(0, 2000)
      [] s = "9007199254740992" -> Double(9007199, 254740992)
      [] s = "9007199254740993" -> Double(9007199, 254740992)
      [] OTHER -> NaN

\* a > b on numbers: false when either is NaN
JsGreater(a, b) ==
    /\ ~a.nan
    /\ ~b.nan
    /\ (a.hi > b.hi \/ (a.hi = b.hi /\ a.lo > b.lo))

\* (gwei * gasEstimate) / 1e9 * 2000, in 10^-6 USD
ETH_PRICE_USD == 2000

GasCostUSD(gwei, gasEstimate) == ((gwei * gasEstimate) \div 1000) * ETH_PRICE_USD

\* Array.prototype.reduce without an initial value over a non-empty array:
\* the index the callback ends with, starting at the first element.
\* Prefer(current, best) is the callback's test for replacing best.
ReduceIndex(arr, Prefer(_, _)) ==
    LET pick[i \in 1..Len(arr)] ==
            IF i = 1 THEN 1
            ELSE IF Prefer(arr[i], arr[pick[i - 1]]) THEN i ELSE pick[i - 1]
    IN  pick[Len(arr)]

\* the reduce callbacks
LowerStandard_orEqual(current, best) == current.standard <= best.standard

LowerStandard(current, best) == current.standard < best.standard

HigherAmountOut(current, best) ==
    JsGreater(parseFloat(current.route.amountOut), parseFloat(best.route.amountOut))

LowerTotalCost(current, best) == current.totalCostUSD < best.totalCostUSD

LowerCost(current, best) == current.cost < best.cost

\* STEP 1, 2 and 4
bestGasData(gasData) == gasData[ReduceIndex(gasData, LowerStandard)]

bestRoute(dexRoutes) == dexRoutes[ReduceIndex(dexRoutes, HigherAmountOut)]

bestL2Option(l2Options) ==
    IF Len(l2Options) > 0
    THEN l2Options[ReduceIndex(l2Options, LowerTotalCost)]
    ELSE None

Max(a, b) == IF a > b THEN a ELSE b

\* a || b on numbers: 0 is falsy
JsOr(a, b) == IF a = 0 THEN b ELSE a

\* percentages are kept as the quotient num / den (times 100), not evaluated
calculateWaitSavings(gasData, route) ==
    LET currentCost == GasCostUSD(gasData.currentGwei, route.route.gasEstimate)
        forecastCosts ==
            [index \in 1..Len(gasData.forecast.next5Blocks) |->
                [cost |-> GasCostUSD(gasData.forecast.next5Blocks[index],
                                     route.route.gasEstimate),
                 waitTime |-> index * 12,
                 gwei |-> gasData.forecast.next5Blocks[index]]]
        bestForecast == forecastCosts[ReduceIndex(forecastCosts, LowerCost)]
    IN  [amount |-> Max(0, currentCost - bestForecast.cost),
         percentage |-> [num |-> Max(0, currentCost - bestForecast.cost),
                         den |-> currentCost],
         waitTime |-> bestForecast.waitTime,
         confidence |-> gasData.forecast.confidence]

\* STEP 3 with a fee that follows the wall clock
currentTotalCostUSD_atClock(gas, route) ==
    GasCostUSD(gas.currentGwei, route.route.gasEstimate) + route.fees.totalFeeUSD
        + now

\* STEP 3
currentTotalCostUSD(gas, route) ==
    GasCostUSD(gas.currentGwei, route.route.gasEstimate) + route.fees.totalFeeUSD

\* STEP 6, second half: bestL2Option ? currentTotalCostUSD - totalCostUSD : 0
l2Savings(currentTotal, l2Options) ==
    IF Len(l2Options) > 0
    THEN currentTotal - bestL2Option(l2Options).totalCostUSD
    ELSE 0

\* STEP 7: the branch taken, from the two savings figures
UseL2Branch_atLeast(l2Sav, forecastSav) ==
    l2Sav >= USD(5) /\ l2Sav > forecastSav.amount

UseL2Branch(l2Sav, forecastSav) ==
    l2Sav > USD(5) /\ l2Sav > forecastSav.amount

\* the wait branch taken only above a confidence of 0.9
WaitBranch_sureOnly(l2Sav, forecastSav) ==
    /\ ~UseL2Branch(l2Sav, forecastSav)
    /\ forecastSav.amount > USD(2)
    /\ forecastSav.confidence > 90

WaitBranch(l2Sav, forecastSav) ==
    /\ ~UseL2Branch(l2Sav, forecastSav)
    /\ forecastSav.amount > USD(2)
    /\ forecastSav.confidence > 70

recommendation(l2Sav, forecastSav) ==
    IF UseL2Branch(l2Sav, forecastSav) THEN "use_l2"
    ELSE IF WaitBranch(l2Sav, forecastSav) THEN "wait"
    ELSE "execute_now"

savings(l2Sav, forecastSav, currentTotal) ==
    IF UseL2Branch(l2Sav, forecastSav)
    THEN [amount |-> l2Sav,
          percentage |-> [num |-> l2Sav, den |-> currentTotal]]
    ELSE IF WaitBranch(l2Sav, forecastSav)
    THEN [amount |-> forecastSav.amount, percentage |-> forecastSav.percentage]
    ELSE [amount |-> 0, percentage |-> [num |-> 0, den |-> 1]]

\* timing with waitTime assigned in every branch
timing_always(l2Sav, forecastSav) ==
    [waitTime |-> forecastSav.waitTime, confidence |-> forecastSav.confidence]

\* timing: waitTime is assigned in the wait branch only
timing(l2Sav, forecastSav) ==
    IF WaitBranch(l2Sav, forecastSav)
    THEN [waitTime |-> forecastSav.waitTime, confidence |-> forecastSav.confidence]
    ELSE [confidence |-> forecastSav.confidence]

\* STEP 8: the object analyzeQuoteData returns for a bundle with gas data and
\* routes
SwapAnalysis(q) ==
    LET gas == bestGasData(q.gasData)
        route == bestRoute(q.dexRoutes)
        l2 == bestL2Option(q.l2Options)
        cur == currentTotalCostUSD(gas, route)
        fs == calculateWaitSavings(gas, route)
        l2s == l2Savings(cur, q.l2Options)
        rec == recommendation(l2s, fs)
        sav == savings(l2s, fs, cur)
    IN  [recommendation |-> rec,
         savings |-> sav,
         timing |-> timing(l2s, fs),
         routes |->
           [current |-> [protocol |-> route.source,
                         cost |-> cur,
                         gasEstimate |-> route.route.gasEstimate],
            optimal |->
              [protocol |-> IF rec = "use_l2" THEN l2.source ELSE route.source,
               cost |-> IF rec = "use_l2" THEN JsOr(l2.totalCostUSD, cur)
                        ELSE IF rec = "wait" THEN cur - sav.amount
                        ELSE cur,
               gasEstimate |-> route.route.gasEstimate,
               execution |-> IF rec = "execute_now" THEN "immediate"
                             ELSE IF rec = "wait" THEN "delayed"
                             ELSE "l2"]]]

\* reduce of an empty array without an initial value
ReduceTypeError ==
    [name |-> "TypeError",
     message |-> "Reduce of empty array with no initial value"]

\* What analyzeQuoteData does with a bundle: the statements it evaluated
\* before it returned or threw (computed), and then either the error thrown
\* or the value returned together with the selections it made.
analyzeQuoteData(q) ==
    IF Len(q.gasData) = 0
    THEN [threw |-> TRUE, error |-> ReduceTypeError, computed |-> {}]
    ELSE IF Len(q.dexRoutes) = 0
    THEN [threw |-> TRUE, error |-> ReduceTypeError,
          computed |-> {"bestGasData"}]
    ELSE [threw |-> FALSE, value |-> SwapAnalysis(q),
          computed |-> {"bestGasData", "bestRoute", "currentTotalCostUSD",
                        "bestL2Option", "forecastSavings", "l2Savings"},
          bestGasData |-> bestGasData(q.gasData),
          bestRoute |-> bestRoute(q.dexRoutes),
          bestL2Option |-> bestL2Option(q.l2Options)]

-----------------------------------------------------------------------------
(* FeeOptimizationService.analyzeSwap *)

\* The callbacks registered for an event, by what happens when emit runs
\* them: none registered, all return, one throws.
ListenerKinds == {"none", "quiet", "throws"}

ListenerEvents == {"analysis_complete", "analysis_error"}

NoListeners == [e \in ListenerEvents |-> "none"]

ListenerError == [name |-> "Error", message |-> "listener failed"]

\* on(event, callback): the callback joins the event's list
On(event, kind) ==
    /\ svcPc \in {"Idle", "Fetching"}
    /\ kind # "none"
    /\ listeners[event] = "none"
    /\ listeners' = [listeners EXCEPT ![event] = kind]
    /\ UNCHANGED <<svcPc, quote, outcome, returned, thrown, svcEvents>>
    /\ UNCHANGED aggVars
    /\ UNCHANGED reqVars
    /\ UNCHANGED healthVars
    /\ UNCHANGED hookVars
    /\ UNCHANGED adapterVars

\* off(event, callback): the callback leaves the event's list
Off(event) ==
    /\ svcPc \in {"Idle", "Fetching"}
    /\ listeners[event] # "none"
    /\ listeners' = [listeners EXCEPT ![event] = "none"]
    /\ UNCHANGED <<svcPc, quote, outcome, returned, thrown, svcEvents>>
    /\ UNCHANGED aggVars
    /\ UNCHANGED reqVars
    /\ UNCHANGED healthVars
    /\ UNCHANGED hookVars
    /\ UNCHANGED adapterVars

\* emit(event, data) runs the callbacks synchronously; TRUE when a callback's
\* exception comes back out of it
EmitRaises(event) == listeners[event] = "throws"

\* the caller invokes analyzeSwap: the trade request is built and
\* getComprehensiveQuote is awaited
AnalyzeSwapCall ==
    /\ svcPc = "Idle"
    /\ svcPc' = "Fetching"
    /\ UNCHANGED <<quote, outcome, returned, thrown, svcEvents, listeners>>
    /\ UNCHANGED aggVars
    /\ UNCHANGED reqVars
    /\ UNCHANGED healthVars
    /\ UNCHANGED hookVars
    /\ UNCHANGED adapterVars

\* the error analyzeSwap throws from its catch block
WrappedError(error) ==
    [name |-> "Error", message |-> <<"Fee optimization failed: ", error.message>>]

\* getComprehensiveQuote resolves with a bundle q of the given sets; the rest
\* of analyzeSwap runs: the analysis and emit('analysis_complete') inside the
\* try block, emit('analysis_error') and the throw inside the catch block
AnalyzeSwapResumeFrom(GasLists, RouteLists, OptionLists) ==
    /\ svcPc = "Fetching"
    /\ \E g \in GasLists, d \in RouteLists, l \in OptionLists :
        LET q == Quote(g, d, l)
            o == analyzeQuoteData(q)
            emitted == IF o.threw THEN svcEvents
                       ELSE Append(svcEvents,
                                [event |-> "analysis_complete", data |-> o.value])
            caught == IF o.threw THEN o.error ELSE ListenerError
        IN  /\ quote' = q
            /\ outcome' = o
            /\ IF o.threw \/ EmitRaises("analysis_complete")
               THEN /\ svcEvents' = Append(emitted,
                           [event |-> "analysis_error", data |-> caught])
                    /\ thrown' = IF EmitRaises("analysis_error")
                                 THEN ListenerError
                                 ELSE WrappedError(caught)
                    /\ returned' = None
                    /\ svcPc' = "Failed"
               ELSE /\ svcEvents' = emitted
                    /\ returned' = o.value
                    /\ thrown' = None
                    /\ svcPc' = "Recommended"
    /\ UNCHANGED listeners
    /\ UNCHANGED aggVars
    /\ UNCHANGED reqVars
    /\ UNCHANGED healthVars
    /\ UNCHANGED hookVars
    /\ UNCHANGED adapterVars

AnalyzeSwapResume ==
    AnalyzeSwapResumeFrom(GasDataLists, DexRouteLists, L2OptionLists)

-----------------------------------------------------------------------------
(* The useFeeOptimization hook on top of FeeOptimizationService *)

HookCallIds == 1..MaxHookCalls

\* useState(null), useState(false), useState(null), useState(null)
InitialHook ==
    [analysis |-> None, loading |-> FALSE, error |-> None, serviceHealth |-> None]

\* the hook as first rendered, its analyzeSwap not called yet
HookIdle ==
    /\ hook = InitialHook
    /\ hookCalls = [k \in HookCallIds |-> "idle"]

\* the SwapAnalysis the service computes for call k
AnalysisOf(k) == [call |-> k]

\* the errors the try block of the service's analyzeSwap raises
ServiceErrors == {ReduceTypeError}

\* the string a setError call stores: err.message
ErrorText(message) == [text |-> message]

\* the hook's analyzeSwap is called: setLoading(true), setError(null),
\* setAnalysis(null), then the service's analyzeSwap is awaited.  Nothing
\* keeps it from being called while an earlier call is awaited.
HookAnalyzeSwap(k) ==
    /\ hookCalls[k] = "idle"
    /\ \A j \in 1..(k - 1) : hookCalls[j] # "idle"
    /\ hook' = [hook EXCEPT !.loading = TRUE, !.error = None, !.analysis = None]
    /\ hookCalls' = [hookCalls EXCEPT ![k] = "awaiting"]
    /\ UNCHANGED engineVars
    /\ UNCHANGED aggVars
    /\ UNCHANGED reqVars
    /\ UNCHANGED healthVars
    /\ UNCHANGED adapterVars

\* the service's analyzeSwap of call k emits 'analysis_complete' and returns:
\* handleAnalysisComplete runs setAnalysis(data), setLoading(false),
\* setError(null); the hook's await returns
HookAnalysisComplete(k) ==
    /\ hookCalls[k] = "awaiting"
    /\ hook' = [hook EXCEPT !.analysis = AnalysisOf(k), !.loading = FALSE,
                            !.error = None]
    /\ hookCalls' = [hookCalls EXCEPT ![k] = "returned"]
    /\ UNCHANGED engineVars
    /\ UNCHANGED aggVars
    /\ UNCHANGED reqVars
    /\ UNCHANGED healthVars
    /\ UNCHANGED adapterVars

\* the service's analyzeSwap of call k emits 'analysis_error' with the error
\* e and throws: handleAnalysisError runs setError(err.message),
\* setLoading(false); the analysis is left as it is
HookAnalysisError(k, e) ==
    /\ hookCalls[k] = "awaiting"
    /\ hook' = [hook EXCEPT !.error = ErrorText(<<e.message>>), !.loading = FALSE]
    /\ hookCalls' = [hookCalls EXCEPT ![k] = "throwing"]
    /\ UNCHANGED engineVars
    /\ UNCHANGED aggVars
    /\ UNCHANGED reqVars
    /\ UNCHANGED healthVars
    /\ UNCHANGED adapterVars

\* the catch block of the hook's analyzeSwap for the error the service
\* threw: setError(err.message), setLoading(false)
HookCatches(k, e) ==
    /\ hookCalls[k] = "throwing"
    /\ hook' = [hook EXCEPT !.error = ErrorText(WrappedError(e).message),
                            !.loading = FALSE]
    /\ hookCalls' = [hookCalls EXCEPT ![k] = "caught"]
    /\ UNCHANGED engineVars
    /\ UNCHANGED aggVars
    /\ UNCHANGED reqVars
    /\ UNCHANGED healthVars
    /\ UNCHANGED adapterVars

\* getServiceHealth().then(setServiceHealth), started by the effect
HookHealthArrives ==
    /\ hook.serviceHealth = None
    /\ hook' = [hook EXCEPT !.serviceHealth = [health |-> "checked"]]
    /\ UNCHANGED hookCalls
    /\ UNCHANGED engineVars
    /\ UNCHANGED aggVars
    /\ UNCHANGED reqVars
    /\ UNCHANGED healthVars
    /\ UNCHANGED adapterVars

EngineIdle ==
    /\ HookIdle
    /\ svcPc = "Idle"
    /\ quote = None
    /\ outcome = None
    /\ returned = None
    /\ thrown = None
    /\ svcEvents = <<>>
    /\ listeners = NoListeners

EngineNext ==
    \/ AnalyzeSwapCall
    \/ AnalyzeSwapResume

-----------------------------------------------------------------------------
(* APIOrchestrator: configuration, cache, fan-out *)

cacheTimeout == 30 * 1000

\* the clock is advanced half a TTL at a time
ClockStep == cacheTimeout \div 2

CallIds == 1..MaxCalls

Prefixes == {"gas", "dex", "l2"}

\* The config objects: each key left out, empty, or given.
KeyFields == {"blocknativeKey", "infuraKey"}

Configs == UNION { [fields -> {"", "key"}] : fields \in SUBSET KeyFields }

\* config.blocknativeKey ? ... : ...  (undefined and "" are falsy)
KeyGiven(cfg, field) == field \in DOMAIN cfg /\ cfg[field] # ""

\* constructor with every gas service created, whatever the keys
gasServicesOf_all(cfg) == <<"Blocknative", "Infura">>

\* constructor: a gas service is created for each API key that was provided
gasServicesOf(cfg) ==
    (IF KeyGiven(cfg, "blocknativeKey") THEN <<"Blocknative">> ELSE <<>>)
        \o (IF KeyGiven(cfg, "infuraKey") THEN <<"Infura">> ELSE <<>>)

\* the orchestrator constructed with cfg
Constructed(cfg) ==
    /\ config = cfg
    /\ gasServices = gasServicesOf(cfg)

\* a config that provides the keys of the given gas services and no other
KeysFor(services) ==
    [field \in { f \in KeyFields :
                    \/ f = "blocknativeKey" /\ \E i \in 1..Len(services) : services[i] = "Blocknative"
                    \/ f = "infuraKey" /\ \E i \in 1..Len(services) : services[i] = "Infura" }
        |-> "key"]

GasServiceConfigs ==
    { <<>>, <<"Blocknative">>, <<"Infura">>, <<"Blocknative", "Infura">> }

ServicesOf(prefix) ==
    CASE prefix = "gas" -> gasServices
      [] prefix = "dex" -> DexServiceNames
      [] prefix = "l2"  -> L2ServiceNames

AllServiceNames == {"Blocknative", "Infura", "1inch", "ParaSwap", "LI.FI"}

SeqRange(seq) == { seq[i] : i \in 1..Len(seq) }

\* the trade requests used: analyzeSwap's request (no toChain) and one naming
\* a destination chain
BaseRequest ==
    [fromToken |-> "0xEeee", toToken |-> "0xA0b8", amount |-> "1000000000000000000",
     fromChain |-> "ethereum", userAddress |-> "0xUser", slippage |-> "0.5",
     priority |-> "standard"]

L2Request ==
    [fromToken |-> "0xEeee", toToken |-> "0xA0b8", amount |-> "1000000000000000000",
     fromChain |-> "ethereum", toChain |-> "arbitrum", userAddress |-> "0xUser",
     slippage |-> "0.5", priority |-> "standard"]

Requests == {BaseRequest, L2Request}

\* requests that differ from BaseRequest in one field: the user, the
\* priority, the source chain; a token, the amount, the slippage
RouteRequests ==
    { BaseRequest,
      [BaseRequest EXCEPT !.userAddress = "0xOther"],
      [BaseRequest EXCEPT !.priority = "fast"],
      [BaseRequest EXCEPT !.fromChain = "polygon"],
      [BaseRequest EXCEPT !.toToken = "0xdAC1"],
      [BaseRequest EXCEPT !.amount = "2000000000000000000"],
      [BaseRequest EXCEPT !.slippage = "1"] }

\* the params analyzeSwap is called with: a well-formed one, one without
\* fromToken, one with an empty toToken, one with amount 0 and one with a
\* negative amount
ValidParams ==
    [fromToken |-> "0xEeee", toToken |-> "0xA0b8", amount |-> "1000000000000000000",
     userAddress |-> "0xUser"]

SwapParams ==
    { ValidParams,
      [toToken |-> "0xA0b8", amount |-> "1000000000000000000", userAddress |-> "0xUser"],
      [ValidParams EXCEPT !.toToken = ""],
      [ValidParams EXCEPT !.amount = "0"],
      [ValidParams EXCEPT !.amount = "-1"] }

\* the trade request analyzeSwap builds from its params: a field of params
\* that is undefined stays undefined, slippage defaults to 0.5
\* a trade request that names a destination chain
TradeRequest_toChain(params) ==
    [f \in (DOMAIN params \cap {"fromToken", "toToken", "amount", "userAddress"})
              \cup {"fromChain", "toChain", "slippage", "priority"} |->
        CASE f = "fromChain" -> "ethereum"
          [] f = "toChain"   -> "arbitrum"
          [] f = "priority"  -> "standard"
          [] f = "slippage"  -> "0.5"
          [] OTHER           -> params[f]]

TradeRequest(params) ==
    [f \in (DOMAIN params \cap {"fromToken", "toToken", "amount", "userAddress"})
              \cup {"fromChain", "slippage", "priority"} |->
        CASE f = "fromChain" -> "ethereum"
          [] f = "priority"  -> "standard"
          [] f = "slippage"  -> IF "slippage" \in DOMAIN params
                                THEN params.slippage ELSE "0.5"
          [] OTHER           -> params[f]]

SwapRequests == { TradeRequest(params) : params \in SwapParams }

\* !request.toChain
NoToChain(request) == "toChain" \notin DOMAIN request \/ request.toChain = ""

\* JSON.stringify of a plain object: its own fields in order, as name/value
\* pairs; a field that is absent (undefined) is left out
FieldOrder ==
    << "fromToken", "toToken", "amount", "fromChain", "toChain", "userAddress",
       "slippage", "priority" >>

JsonStringify(params) ==
    LET pairs == [i \in 1..Len(FieldOrder) |->
                    << FieldOrder[i],
                       IF FieldOrder[i] \in DOMAIN params
                       THEN params[FieldOrder[i]] ELSE "" >>]
    IN  SelectSeq(pairs, LAMBDA pr : pr[1] \in DOMAIN params)

EmptyObject == [f \in {} |-> ""]

getCacheKey(prefix, params) == << prefix, JsonStringify(params) >>

\* the key each method uses: gas by the empty object, dex and l2 by the
\* whole request (a gas-only call carries no request)
KeyTable ==
    [prefix \in Prefixes |->
        [request \in Requests \cup SwapRequests \cup RouteRequests \cup {None} |->
            IF prefix = "gas" \/ request = None
            THEN getCacheKey(prefix, EmptyObject)
            ELSE getCacheKey(prefix, request)]]

KeyOf(prefix, request) == KeyTable[prefix][request]

CacheKeys ==
    { KeyOf("gas", None) }
        \cup { KeyOf(prefix, r) : prefix \in {"dex", "l2"},
                                   r \in Requests \cup SwapRequests \cup RouteRequests }

\* getFromCache: the entry is used when present and younger than the TTL
Fresh_orEqual(key) ==
    cache[key] # None /\ now - cache[key].timestamp <= cacheTimeout

Fresh(key) ==
    cache[key] # None /\ now - cache[key].timestamp < cacheTimeout

\* what service p's method resolves with for call c: one quote from a gas or
\* DEX service, the options of data.routes (two here) from LI.FI
Payload(prefix, p, c) ==
    IF prefix = "l2"
    THEN << [source |-> p, call |-> c, item |-> 1],
            [source |-> p, call |-> c, item |-> 2] >>
    ELSE << [source |-> p, call |-> c, item |-> 1] >>

\* results.filter(fulfilled).map(value) / flatMap(value), in service order
Fulfilled_all(prefix, c, settled) ==
    LET services == ServicesOf(prefix)
        acc[i \in 0..Len(services)] ==
            IF i = 0 THEN <<>> ELSE acc[i - 1] \o Payload(prefix, services[i], c)
    IN  acc[Len(services)]

Fulfilled(prefix, c, settled) ==
    LET services == ServicesOf(prefix)
        acc[i \in 0..Len(services)] ==
            IF i = 0 THEN <<>>
            ELSE IF settled[services[i]] = "fulfilled"
                 THEN acc[i - 1] \o Payload(prefix, services[i], c)
                 ELSE acc[i - 1]
    IN  acc[Len(services)]

\* Promise.allSettled has resolved
AllSettled_any(sub) ==
    \E p \in DOMAIN sub.settled : sub.settled[p] # "pending"

AllSettled(sub) ==
    \A p \in DOMAIN sub.settled : sub.settled[p] # "pending"

\* A sub-fetch (one of getOptimizedGasData, getBestDEXRoutes,
\* getL2Alternatives within a call): how it went (unused, skipped, hit, miss),
\* whether it has returned, what each service's promise settled as, its data
\* (the contents of the array it returns) and ref, the identity of that array:
\* the call and method whose code created it
NoRef == <<0, "none">>

UnusedSub ==
    [how |-> "unused", done |-> FALSE,
     settled |-> [p \in {} |-> "pending"], data |-> <<>>, ref |-> NoRef]

IdleCall ==
    [pc |-> "idle", op |-> "none", request |-> None, startedAt |-> 0,
     sub |-> [prefix \in Prefixes |-> UnusedSub], result |-> None]

\* the rest of a cache-checked method once Promise.allSettled has resolved:
\* keep the fulfilled results and return them (setCache is in CacheAfter)
Joined(sub, prefix, c) ==
    IF sub.how = "miss" /\ ~sub.done /\ AllSettled(sub)
    THEN [sub EXCEPT !.done = TRUE, !.data = Fulfilled(prefix, c, sub.settled)]
    ELSE sub

\* a cache-checked method that takes an empty cached list for no entry
StartSub_nonEmpty(prefix, request, c) ==
    LET key == KeyOf(prefix, request) IN
    IF Fresh(key) /\ cache[key].data # <<>>
    THEN [how |-> "hit", done |-> TRUE,
          settled |-> [p \in {} |-> "pending"], data |-> cache[key].data,
          ref |-> cache[key].ref]
    ELSE Joined([how |-> "miss", done |-> FALSE,
                 settled |-> [p \in SeqRange(ServicesOf(prefix)) |-> "pending"],
                 data |-> <<>>, ref |-> <<c, prefix>>], prefix, c)

\* a cache-checked method up to its return or first await: a cache hit
\* returns the entry's data (cached.data, the array itself), a miss invokes
\* every service of the kind and will return the array its filter/map builds
StartSub(prefix, request, c) ==
    LET key == KeyOf(prefix, request) IN
    IF Fresh(key)
    THEN [how |-> "hit", done |-> TRUE,
          settled |-> [p \in {} |-> "pending"], data |-> cache[key].data,
          ref |-> cache[key].ref]
    ELSE Joined([how |-> "miss", done |-> FALSE,
                 settled |-> [p \in SeqRange(ServicesOf(prefix)) |-> "pending"],
                 data |-> <<>>, ref |-> <<c, prefix>>], prefix, c)

\* getL2Alternatives returns [] at once when the request has no toChain
SkippedSub ==
    [how |-> "skipped", done |-> TRUE,
     settled |-> [p \in {} |-> "pending"], data |-> <<>>, ref |-> NoRef]

StartL2Sub_always(request, c) == StartSub("l2", request, c)

StartL2Sub(request, c) ==
    IF NoToChain(request) THEN [SkippedSub EXCEPT !.ref = <<c, "l2">>]
    ELSE StartSub("l2", request, c)

\* Promise.all over the three methods has resolved
AllDone_any(call) ==
    \E prefix \in Prefixes : call.sub[prefix].how # "unused" /\ call.sub[prefix].done

AllDone(call) ==
    \A prefix \in Prefixes : call.sub[prefix].how # "unused" => call.sub[prefix].done

\* the bundle getComprehensiveQuote returns
Bundle(call) ==
    [gasData |-> call.sub["gas"].data,
     dexRoutes |-> call.sub["dex"].data,
     l2Options |-> call.sub["l2"].data,
     timestamp |-> now]

\* the call returns to its caller as soon as what it awaits has resolved
Returned(call) ==
    IF call.pc = "fetching" /\ AllDone(call)
    THEN [call EXCEPT !.pc = "returned",
                      !.result = IF call.op = "gas"
                                 THEN [gasData |-> call.sub["gas"].data]
                                 ELSE IF call.op = "dex"
                                 THEN [dexRoutes |-> call.sub["dex"].data]
                                 ELSE Bundle(call)]
    ELSE call

\* the sub-fetches of call c that complete a fan-out in this step
JoinsNow(before, after) ==
    { prefix \in Prefixes :
        /\ after.sub[prefix].how = "miss"
        /\ after.sub[prefix].done
        /\ ~(before.sub[prefix].how = "miss" /\ before.sub[prefix].done) }

\* setCache that stores the new data next to the timestamp of the entry it
\* replaces
CacheAfter_torn(before, after) ==
    LET joins == JoinsNow(before, after)
        written == { KeyOf(prefix, after.request) : prefix \in joins }
    IN  IF joins = {} THEN cache
        ELSE [key \in CacheKeys |->
                IF key \in written
                THEN LET prefix == CHOOSE pf \in joins : key = KeyOf(pf, after.request)
                     IN  [data |-> after.sub[prefix].data,
                          timestamp |-> IF cache[key] # None
                                        THEN cache[key].timestamp ELSE now,
                          ref |-> after.sub[prefix].ref]
                ELSE cache[key]]

\* setCache by each sub-fetch that completes a fan-out in this step
CacheAfter(before, after) ==
    LET joins == JoinsNow(before, after)
        written == { KeyOf(prefix, after.request) : prefix \in joins }
    IN  IF joins = {} THEN cache
        ELSE [key \in CacheKeys |->
                IF key \in written
                THEN LET prefix == CHOOSE pf \in joins : key = KeyOf(pf, after.request)
                     IN  [data |-> after.sub[prefix].data, timestamp |-> now,
                          ref |-> after.sub[prefix].ref]
                ELSE cache[key]]

\* history records: call c read, or wrote, the entry of a key
GetOp(c, prefix, request) ==
    [call |-> c, op |-> "get", key |-> KeyOf(prefix, request)]

SetOps(c, before, after) ==
    { [call |-> c, op |-> "set", key |-> KeyOf(prefix, after.request)] :
        prefix \in JoinsNow(before, after) }

\* getOptimizedGasData() is called.  It runs to its return (cache hit, or no
\* gas service configured) or to its await.
StartGas(c) ==
    LET started ==
            [pc |-> "fetching", op |-> "gas", request |-> None, startedAt |-> now,
             sub |-> [prefix \in Prefixes |->
                        IF prefix = "gas" THEN StartSub("gas", None, c)
                        ELSE UnusedSub],
             result |-> None]
    IN  /\ calls[c].pc = "idle"
        /\ calls' = [calls EXCEPT ![c] = Returned(started)]
        /\ cache' = CacheAfter(calls[c], started)
        /\ cacheOps' = cacheOps \cup {GetOp(c, "gas", None)}
                                \cup SetOps(c, calls[c], started)
        /\ UNCHANGED <<config, gasServices, unresponsive, now, cleanupTimers>>
        /\ UNCHANGED engineVars
        /\ UNCHANGED reqVars
        /\ UNCHANGED healthVars
        /\ UNCHANGED hookVars
        /\ UNCHANGED adapterVars

\* getBestDEXRoutes(request) is called.  It runs to its return (cache hit) or
\* to its await.
StartRoutes(c, request) ==
    LET started ==
            [pc |-> "fetching", op |-> "dex", request |-> request,
             startedAt |-> now,
             sub |-> [prefix \in Prefixes |->
                        IF prefix = "dex" THEN StartSub("dex", request, c)
                        ELSE UnusedSub],
             result |-> None]
    IN  /\ calls[c].pc = "idle"
        /\ calls' = [calls EXCEPT ![c] = Returned(started)]
        /\ cache' = CacheAfter(calls[c], started)
        /\ cacheOps' = cacheOps \cup {GetOp(c, "dex", request)}
                                \cup SetOps(c, calls[c], started)
        /\ UNCHANGED <<config, gasServices, unresponsive, now, cleanupTimers>>
        /\ UNCHANGED engineVars
        /\ UNCHANGED reqVars
        /\ UNCHANGED healthVars
        /\ UNCHANGED hookVars
        /\ UNCHANGED adapterVars

\* getComprehensiveQuote(request) is called: the three methods run, each to
\* its return or its await; the call returns at once if none awaits
QuoteStarted(c, request) ==
    LET started ==
            [pc |-> "fetching", op |-> "quote", request |-> request,
             startedAt |-> now,
             sub |-> [prefix \in Prefixes |->
                        IF prefix = "l2" THEN StartL2Sub(request, c)
                        ELSE StartSub(prefix, request, c)],
             result |-> None]
    IN  /\ calls[c].pc = "idle"
        /\ calls' = [calls EXCEPT ![c] = Returned(started)]
        /\ cache' = CacheAfter(calls[c], started)
        /\ cacheOps' = cacheOps
              \cup {GetOp(c, "gas", request), GetOp(c, "dex", request)}
              \cup (IF started.sub["l2"].how = "skipped" THEN {}
                    ELSE {GetOp(c, "l2", request)})
              \cup SetOps(c, calls[c], started)
        /\ UNCHANGED <<config, gasServices, unresponsive, now, cleanupTimers>>

StartQuote(c, request) ==
    /\ QuoteStarted(c, request)
    /\ UNCHANGED engineVars
    /\ UNCHANGED reqVars
    /\ UNCHANGED healthVars
    /\ UNCHANGED hookVars
    /\ UNCHANGED adapterVars

\* Service p's promise for call c settles: fulfilled with its quote, or
\* rejected (makeRequest exhausted its attempts, or the response could not be
\* transformed).  The continuations that become ready run with it: the
\* method's after its allSettled, the call's after its Promise.all.
ProviderSettlesNoting(c, prefix, p, status, noted) ==
    LET sub == calls[c].sub[prefix]
        settledSub == [sub EXCEPT !.settled[p] = status]
        after == [calls[c] EXCEPT !.sub[prefix] = Joined(settledSub, prefix, c)]
    IN  /\ calls[c].pc = "fetching"
        /\ sub.how = "miss"
        /\ ~sub.done
        /\ p \in DOMAIN sub.settled
        /\ sub.settled[p] = "pending"
        /\ p \notin unresponsive
        /\ calls' = [calls EXCEPT ![c] = Returned(after)]
        /\ cache' = CacheAfter(calls[c], after)
        /\ cacheOps' = cacheOps \cup SetOps(c, calls[c], after) \cup noted
        /\ UNCHANGED <<config, gasServices, unresponsive, now, cleanupTimers>>
        /\ UNCHANGED engineVars
        /\ UNCHANGED reqVars
        /\ UNCHANGED healthVars
        /\ UNCHANGED hookVars
        /\ UNCHANGED adapterVars

ProviderSettles(c, prefix, p, status) ==
    ProviderSettlesNoting(c, prefix, p, status, {})

\* history record: the quote of service p for call c arrived at this time
ReceivedOp(c, prefix, p, at) ==
    [call |-> c, op |-> "received", kind |-> prefix, from |-> p, at |-> at]

\* the same step with the arrival of a fulfilled quote recorded
ProviderSettlesAt(c, prefix, p, status) ==
    ProviderSettlesNoting(c, prefix, p, status,
        IF status = "fulfilled" THEN {ReceivedOp(c, prefix, p, now)} ELSE {})

\* the field of a call's result that holds the array of a method
ResultField(prefix) ==
    CASE prefix = "gas" -> "gasData"
      [] prefix = "dex" -> "dexRoutes"
      [] prefix = "l2"  -> "l2Options"

\* the contents of the array r have been replaced by nothing: what a call
\* holding r, and what the cache, then shows
Emptied(call, r) ==
    LET sub == [prefix \in Prefixes |->
                  IF call.sub[prefix].done /\ call.sub[prefix].ref = r
                  THEN [call.sub[prefix] EXCEPT !.data = <<>>]
                  ELSE call.sub[prefix]]
    IN  [call EXCEPT
           !.sub = sub,
           !.result =
              IF call.pc # "returned" THEN call.result
              ELSE [f \in DOMAIN call.result |->
                      IF \E prefix \in Prefixes :
                            f = ResultField(prefix) /\ call.sub[prefix].ref = r
                      THEN <<>> ELSE call.result[f]]]

\* The caller of call c, which has returned, empties the array it received
\* from the method of the given kind (result.length = 0).  Every holder of
\* the same array sees it: the cache entry and the other calls.
CallerEmpties(c, prefix) ==
    LET r == calls[c].sub[prefix].ref IN
    /\ calls[c].pc = "returned"
    /\ calls[c].sub[prefix].how \in {"hit", "miss"}
    /\ calls[c].sub[prefix].data # <<>>
    /\ calls' = [d \in CallIds |-> Emptied(calls[d], r)]
    /\ cache' = [key \in CacheKeys |->
                   IF cache[key] # None /\ cache[key].ref = r
                   THEN [cache[key] EXCEPT !.data = <<>>] ELSE cache[key]]
    /\ cacheOps' = cacheOps \cup
          { [call |-> c, op |-> "mutate", key |-> KeyOf(prefix, calls[c].request)] }
    /\ UNCHANGED <<config, gasServices, unresponsive, now, cleanupTimers>>
    /\ UNCHANGED engineVars
    /\ UNCHANGED reqVars
    /\ UNCHANGED healthVars
    /\ UNCHANGED hookVars
    /\ UNCHANGED adapterVars

\* time passes
TickWithin(limit) ==
    /\ now < limit
    /\ \A i \in 1..Len(cleanupTimers) : now < cleanupTimers[i]
    /\ now' = now + ClockStep
    /\ UNCHANGED <<config, gasServices, unresponsive, cache, calls, cacheOps, cleanupTimers>>
    /\ UNCHANGED engineVars
    /\ UNCHANGED reqVars
    /\ UNCHANGED healthVars
    /\ UNCHANGED hookVars
    /\ UNCHANGED adapterVars

Tick == TickWithin(MaxTicks * ClockStep)

\* startCacheCleanup(): setInterval(callback, cacheTimeout); the callback is
\* first due one interval from now
StartCacheCleanup ==
    /\ Len(cleanupTimers) < MaxTimers
    /\ cleanupTimers' = Append(cleanupTimers, now + cacheTimeout)
    /\ UNCHANGED <<config, gasServices, unresponsive, now, cache, calls, cacheOps>>
    /\ UNCHANGED engineVars
    /\ UNCHANGED reqVars
    /\ UNCHANGED healthVars
    /\ UNCHANGED hookVars
    /\ UNCHANGED adapterVars

\* the entries a cleanup pass deletes: now - value.timestamp > cacheTimeout
Stale_orEqual(key) ==
    cache[key] # None /\ now - cache[key].timestamp >= cacheTimeout

Stale(key) ==
    cache[key] # None /\ now - cache[key].timestamp > cacheTimeout

\* the callback of the i-th interval runs, being due: it deletes the stale
\* entries, and the interval is due again one cacheTimeout later
CleanupPass(i) ==
    /\ i \in 1..Len(cleanupTimers)
    /\ now >= cleanupTimers[i]
    /\ cache' = [key \in CacheKeys |-> IF Stale(key) THEN None ELSE cache[key]]
    /\ cleanupTimers' = [cleanupTimers EXCEPT ![i] = @ + cacheTimeout]
    /\ cacheOps' = cacheOps \cup
          { [call |-> 0, op |-> "delete", key |-> key] :
              key \in { k \in CacheKeys : Stale(k) } }
    /\ UNCHANGED <<config, gasServices, unresponsive, now, calls>>
    /\ UNCHANGED engineVars
    /\ UNCHANGED reqVars
    /\ UNCHANGED healthVars
    /\ UNCHANGED hookVars
    /\ UNCHANGED adapterVars

-----------------------------------------------------------------------------
(* FeeOptimizationService.analyzeSwap on top of the orchestrator *)

\* analyzeSwap that starts over by itself after a failure
AnalyzeSwap_again(params) ==
    /\ svcPc \in {"Idle", "Failed"}
    /\ svcPc' = "Fetching"
    /\ \E c \in CallIds :
          /\ \A d \in CallIds : d < c => calls[d].pc # "idle"
          /\ QuoteStarted(c, TradeRequest(params))
    /\ UNCHANGED <<quote, outcome, returned, thrown, svcEvents, listeners>>
    /\ UNCHANGED reqVars
    /\ UNCHANGED healthVars
    /\ UNCHANGED hookVars
    /\ UNCHANGED adapterVars

\* analyzeSwap(params) is called: the trade request is built and passed to
\* getComprehensiveQuote, which runs to its await
AnalyzeSwap(params) ==
    /\ svcPc = "Idle"
    /\ svcPc' = "Fetching"
    /\ QuoteStarted(1, TradeRequest(params))
    /\ UNCHANGED <<quote, outcome, returned, thrown, svcEvents, listeners>>
    /\ UNCHANGED reqVars
    /\ UNCHANGED healthVars
    /\ UNCHANGED hookVars
    /\ UNCHANGED adapterVars

\* the providers of the quotes in a list
SourcesIn(list) == [i \in 1..Len(list) |-> list[i].source]

\* getComprehensiveQuote has returned: analyzeSwap goes on with its bundle,
\* a quote from every service whose promise was fulfilled
AnalyzeSwapContinues ==
    /\ calls[1].pc = "returned"
    /\ AnalyzeSwapResumeFrom(GasDataLists, DexRouteLists, {<<>>})
    /\ SourcesIn(quote'.gasData) = SourcesIn(calls[1].result.gasData)
    /\ SourcesIn(quote'.dexRoutes) = SourcesIn(calls[1].result.dexRoutes)
    /\ Len(calls[1].result.l2Options) = 0

-----------------------------------------------------------------------------
(* The services' quote methods: from the provider's response to the quote *)

\* A value of a response body: a JSON number, a JSON string, or a field that
\* is not there (undefined).
Num(n) == [num |-> n]

Str(s) == [str |-> s]

Missing == [missing |-> TRUE]

IsNum(v) == "num" \in DOMAIN v

\* v || d: undefined, 0, NaN and "" are falsy
OrElse(v, d) ==
    IF v = Missing \/ v = Num(0) \/ v = Str("") \/ v = NaN THEN d ELSE v

\* the decimal strings the responses carry, and their values
DecimalValue ==
    [s \in {"0", "5", "40", "250000"} |->
        CASE s = "0" -> 0 [] s = "5" -> 5 [] s = "40" -> 40 [] s = "250000" -> 250000]

\* parseInt(v) and parseFloat(v) on these values: a number is converted to a
\* string and back, a decimal string gives its value, anything else NaN
parseInt(v) ==
    IF IsNum(v) THEN v
    ELSE IF "str" \in DOMAIN v /\ v.str \in DOMAIN DecimalValue
    THEN Num(DecimalValue[v.str])
    ELSE NaN

\* a * k on numbers: NaN stays NaN
Times(v, k) == IF IsNum(v) THEN Num(v.num * k) ELSE NaN

AdapterNames == {"Blocknative", "Infura", "1inch", "ParaSwap"}

AdapterPrefix(p) == IF p \in {"Blocknative", "Infura"} THEN "gas" ELSE "dex"

\* what makeRequest can resolve with, per provider; the fields left out are
\* the ones the quote's numeric fields do not depend on
Bodies(p) ==
    CASE p = "Blocknative" ->
            { [blockPrices |-> FALSE] } \cup
            { [blockPrices |-> TRUE, fastPrice |-> Num(60), standardPrice |-> v] :
                v \in {Num(40), Missing, Str("n/a")} }
      [] p = "Infura" ->
            { [medium |-> FALSE] } \cup
            { [medium |-> TRUE, suggestedMaxFeePerGas |-> v] :
                v \in {Str("40"), Missing, Str("n/a")} }
      [] p = "1inch" ->
            { [toTokenAmount |-> a, estimatedGas |-> g] :
                a \in {Str("1000"), Missing},
                g \in {Str("250000"), Missing, Str("n/a")} }
      [] p = "ParaSwap" ->
            { [destAmount |-> a, gasCost |-> g, gasCostUSD |-> Str("5")] :
                a \in {Str("1000"), Missing},
                g \in {Str("250000"), Missing, Str("n/a")} }

AdapterTypeError == [name |-> "TypeError", message |-> "Cannot read properties of undefined"]

Thrown(error) == [threw |-> TRUE, error |-> error]

Quoted(value) == [threw |-> FALSE, value |-> value]

\* BlocknativeGasService.getCurrentGasPrices after its await
BlocknativeQuote(data) ==
    IF ~data.blockPrices THEN Thrown(AdapterTypeError)
    ELSE Quoted([source |-> "Blocknative",
                 currentGwei |-> OrElse(data.fastPrice, Num(0)),
                 standard |-> OrElse(data.standardPrice, Num(0))])

\* InfuraGasService.getCurrentGasPrices after its await
InfuraQuote(data) ==
    IF ~data.medium THEN Thrown(AdapterTypeError)
    ELSE Quoted([source |-> "Infura",
                 currentGwei |-> parseInt(data.suggestedMaxFeePerGas),
                 standard |-> parseInt(data.suggestedMaxFeePerGas)])

\* OneInchDEXService.getBestRoute after its await; totalFeeUSD, in 10^-6 USD,
\* is estimatedGas * 20 * 2000 / 1e9
OneInchRoute(data) ==
    LET gas == parseInt(OrElse(data.estimatedGas, Str("0")))
    IN  Quoted([source |-> "1inch",
                route |-> [amountOut |-> data.toTokenAmount, gasEstimate |-> gas],
                fees |-> [totalFeeUSD |-> Times(gas, 40)]])

\* ParaSwapDEXService.getBestRoute after its await
ParaSwapRoute(data) ==
    Quoted([source |-> "ParaSwap",
            route |-> [amountOut |-> data.destAmount,
                       gasEstimate |-> parseInt(OrElse(data.gasCost, Str("0")))],
            fees |-> [totalFeeUSD |->
                        Times(parseInt(OrElse(data.gasCostUSD, Str("0"))), 1000000)]])

Transform(p, data) ==
    CASE p = "Blocknative" -> BlocknativeQuote(data)
      [] p = "Infura"      -> InfuraQuote(data)
      [] p = "1inch"       -> OneInchRoute(data)
      [] p = "ParaSwap"    -> ParaSwapRoute(data)

IdleAdapter == [pc |-> "idle"]

AdaptersIdle ==
    /\ adapters = [p \in AdapterNames |-> IdleAdapter]
    /\ resultSets = [prefix \in {"gas", "dex"} |-> [returned |-> FALSE]]

\* the key the method of a kind uses for analyzeSwap's request
AdapterKey(prefix) == KeyOf(prefix, IF prefix = "gas" THEN None ELSE BaseRequest)

\* getOptimizedGasData / getBestDEXRoutes is called on a cache miss: every
\* service of the kind is asked for its quote
FanOut(prefix) ==
    /\ \A p \in SeqRange(ServicesOf(prefix)) : adapters[p].pc = "idle"
    /\ ~Fresh(AdapterKey(prefix))
    /\ adapters' = [p \in AdapterNames |->
                      IF p \in SeqRange(ServicesOf(prefix))
                      THEN [pc |-> "awaiting"] ELSE adapters[p]]
    /\ UNCHANGED resultSets
    /\ UNCHANGED aggVars
    /\ UNCHANGED engineVars
    /\ UNCHANGED reqVars
    /\ UNCHANGED healthVars
    /\ UNCHANGED hookVars

\* results.filter(fulfilled).map(value), in service order
FulfilledQuotes(prefix, settled) ==
    LET services == ServicesOf(prefix)
        acc[i \in 0..Len(services)] ==
            IF i = 0 THEN <<>>
            ELSE IF settled[services[i]].pc = "fulfilled"
                 THEN Append(acc[i - 1], settled[services[i]].value)
                 ELSE acc[i - 1]
    IN  acc[Len(services)]

\* service p's promise settles as given; when it is the last of its kind the
\* method keeps the fulfilled quotes, caches them and returns them
AdapterSettles(p, settledAs) ==
    LET prefix == AdapterPrefix(p)
        settled == [adapters EXCEPT ![p] = settledAs]
        joined == \A q \in SeqRange(ServicesOf(prefix)) :
                      settled[q].pc \in {"fulfilled", "rejected"}
        quotes == FulfilledQuotes(prefix, settled)
    IN  /\ adapters[p].pc = "awaiting"
        /\ adapters' = settled
        /\ IF joined
           THEN /\ resultSets' = [resultSets EXCEPT ![prefix] =
                                     [returned |-> TRUE, quotes |-> quotes]]
                /\ cache' = [cache EXCEPT ![AdapterKey(prefix)] =
                                [data |-> quotes, timestamp |-> now,
                                 ref |-> <<1, prefix>>]]
           ELSE UNCHANGED <<resultSets, cache>>
        /\ UNCHANGED <<config, gasServices, unresponsive, now, calls, cacheOps, cleanupTimers>>
        /\ UNCHANGED engineVars
        /\ UNCHANGED reqVars
        /\ UNCHANGED healthVars
        /\ UNCHANGED hookVars

\* makeRequest resolves with a response body and the method builds its quote
MakeRequestResolves(p, data) ==
    LET built == Transform(p, data)
    IN  AdapterSettles(p, IF built.threw
                          THEN [pc |-> "rejected", body |-> data, error |-> built.error]
                          ELSE [pc |-> "fulfilled", body |-> data, value |-> built.value])

\* makeRequest rejects, its attempts exhausted
MakeRequestRejects(p) ==
    AdapterSettles(p, [pc |-> "rejected", body |-> Missing,
                       error |-> ExhaustedErrorName])

-----------------------------------------------------------------------------
(* APIOrchestrator.checkServiceHealth *)

\* service.constructor.name
ClassName(p) ==
    CASE p = "Blocknative" -> "BlocknativeGasService"
      [] p = "Infura"      -> "InfuraGasService"
      [] p = "1inch"       -> "OneInchDEXService"
      [] p = "ParaSwap"    -> "ParaSwapDEXService"
      [] p = "LI.FI"       -> "LiFiL2Service"

\* [...this.gasServices, ...this.dexServices, ...this.l2Services]
allServices == gasServices \o DexServiceNames \o L2ServiceNames

NoHealthCall == [pc |-> "idle", checks |-> <<>>, health |-> None]

\* the result of Promise.allSettled for a check that returned
FulfilledCheck(p, healthy) ==
    [status |-> "fulfilled", value |-> [name |-> ClassName(p), healthy |-> healthy]]

PendingCheck == [status |-> "pending"]

\* the forEach over the settled checks: an entry for every fulfilled one
HealthMap(checks) ==
    LET fulfilled == { i \in 1..Len(checks) : checks[i].status = "fulfilled" }
        names == { checks[i].value.name : i \in fulfilled }
    IN  [name \in names |->
            LET last == CHOOSE i \in fulfilled :
                           /\ checks[i].value.name = name
                           /\ \A j \in fulfilled :
                                 checks[j].value.name = name => j <= i
            IN  checks[last].value.healthy]

\* checkServiceHealth is called: isHealthy is called on every service and
\* the checks are awaited together
CheckServiceHealth ==
    /\ healthChecks.pc = "idle"
    /\ healthChecks' = [pc |-> "checking",
                        checks |-> [i \in 1..Len(allServices) |-> PendingCheck],
                        health |-> None]
    /\ UNCHANGED aggVars
    /\ UNCHANGED engineVars
    /\ UNCHANGED reqVars
    /\ UNCHANGED adapterVars
    /\ UNCHANGED hookVars

\* the isHealthy call on the i-th service returns: its makeRequest resolved
\* (healthy) or rejected (not healthy); when it is the last one, the rest of
\* checkServiceHealth runs
HealthCheckSettles(i, healthy) ==
    /\ healthChecks.pc = "checking"
    /\ i \in 1..Len(healthChecks.checks)
    /\ healthChecks.checks[i].status = "pending"
    /\ allServices[i] \notin unresponsive
    /\ LET checks == [healthChecks.checks EXCEPT
                         ![i] = FulfilledCheck(allServices[i], healthy)]
       IN  healthChecks' =
             IF \A j \in 1..Len(checks) : checks[j].status # "pending"
             THEN [pc |-> "returned", checks |-> checks, health |-> HealthMap(checks)]
             ELSE [healthChecks EXCEPT !.checks = checks]
    /\ UNCHANGED aggVars
    /\ UNCHANGED engineVars
    /\ UNCHANGED reqVars
    /\ UNCHANGED adapterVars
    /\ UNCHANGED hookVars

\* the orchestrator after construction, no call made
AggIdle ==
    /\ AdaptersIdle
    /\ healthChecks = NoHealthCall
    /\ cleanupTimers = <<>>
    /\ now = 0
    /\ cache = [key \in CacheKeys |-> None]
    /\ calls = [c \in CallIds |-> IdleCall]
    /\ cacheOps = {}

-----------------------------------------------------------------------------
(* BaseAPIService.makeRequest and the event forwarding of the orchestrator *)

rateLimitDelay == 100

retryAttempts == 3

\* what one fetch attempt meets: a 2xx response with a JSON body, a non-2xx
\* response, a rejected fetch, a 2xx response whose body is not JSON
Responses == {"ok", "http500", "network", "badjson"}

\* the error the try block raises for a response that is not "ok"
AttemptError(response) ==
    CASE response = "http500" -> [name |-> "Error", message |-> "HTTP 500: Internal Server Error"]
      [] response = "network" -> [name |-> "TypeError", message |-> "Failed to fetch"]
      [] response = "badjson" -> [name |-> "SyntaxError", message |-> "Unexpected token"]

\* a callback registered with orchestrator.on: none, one that returns, one
\* that throws
SubscriberKinds == {"none", "quiet", "throws"}

SubscriberError == [name |-> "Error", message |-> "subscriber failed"]

NoSubscribers == [serviceSuccess |-> "none", serviceError |-> "none"]

\* service.emit(event): the listener setupEventListeners registered forwards
\* the event to the orchestrator's subscribers, synchronously; TRUE when a
\* subscriber's exception comes back out of emit
EmitThrows(event) ==
    IF event = "success" THEN subscribers.serviceSuccess = "throws"
    ELSE subscribers.serviceError = "throws"

\* the service whose makeRequest is followed
RequestingService == "Blocknative"

\* the object the service emits in attempt n: { service, endpoint, data } for
\* 'success', { service, endpoint, error, attempt } for 'error'
ServiceEvent(event, n, value) ==
    IF event = "success"
    THEN [service |-> RequestingService, endpoint |-> "/path", data |-> value]
    ELSE [service |-> RequestingService, endpoint |-> "/path", error |-> value,
          attempt |-> n]

\* the event as the orchestrator forwards it, and the attempt during which
\* it did: { service: constructor.name, data } or { service, error }, with
\* the service's object as data or error
Forwarded(event, n, value) ==
    IF event = "success"
    THEN [event |-> "serviceSuccess", during |-> n,
          payload |-> [service |-> ClassName(RequestingService),
                       data |-> ServiceEvent(event, n, value)]]
    ELSE [event |-> "serviceError", during |-> n,
          payload |-> [service |-> ClassName(RequestingService),
                       error |-> ServiceEvent(event, n, value)]]

\* the error thrown once the loop is left
ExhaustedError(error) ==
    [name |-> "Error",
     message |-> << "API failed after ", retryAttempts, " attempts: ", error.message >>]

\* makeRequest is called: the loop starts and the first fetch is issued
MakeRequest ==
    /\ reqPc = "idle"
    /\ attempt' = 1
    /\ reqPc' = "fetching"
    /\ UNCHANGED <<lastError, reqResult, attemptLog, delays, subscribers, notes>>
    /\ UNCHANGED engineVars
    /\ UNCHANGED aggVars
    /\ UNCHANGED healthVars
    /\ UNCHANGED hookVars
    /\ UNCHANGED adapterVars

\* the catch block for an error raised in the try block, and what follows it
\* up to the next await or the end of makeRequest
Caught(error, notesSoFar) ==
    /\ lastError' = error
    /\ notes' = Append(notesSoFar, Forwarded("error", attempt, error))
    /\ IF EmitThrows("error")
       THEN /\ reqPc' = "rejected"
            /\ reqResult' = [error |-> SubscriberError]
            /\ UNCHANGED delays
       ELSE IF attempt < retryAttempts
       THEN /\ reqPc' = "waiting"
            /\ delays' = Append(delays, rateLimitDelay * attempt)
            /\ UNCHANGED reqResult
       ELSE /\ reqPc' = "rejected"
            /\ reqResult' = [error |-> ExhaustedError(error)]
            /\ UNCHANGED delays

\* the fetch of the current attempt settles; the try block runs on
FetchSettles(response) ==
    /\ reqPc = "fetching"
    /\ attemptLog' = Append(attemptLog, response)
    /\ IF response = "ok"
       THEN LET emitted == Append(notes, Forwarded("success", attempt, "json")) IN
            IF EmitThrows("success")
            THEN Caught(SubscriberError, emitted)
            ELSE /\ notes' = emitted
                 /\ reqPc' = "resolved"
                 /\ reqResult' = [data |-> "json"]
                 /\ UNCHANGED <<lastError, delays>>
       ELSE Caught(AttemptError(response), notes)
    /\ UNCHANGED <<attempt, subscribers>>
    /\ UNCHANGED engineVars
    /\ UNCHANGED aggVars
    /\ UNCHANGED healthVars
    /\ UNCHANGED hookVars
    /\ UNCHANGED adapterVars

\* the delay is over: attempt++ and the next fetch is issued
DelayElapses ==
    /\ reqPc = "waiting"
    /\ attempt' = attempt + 1
    /\ reqPc' = "fetching"
    /\ UNCHANGED <<lastError, reqResult, attemptLog, delays, subscribers, notes>>
    /\ UNCHANGED engineVars
    /\ UNCHANGED aggVars
    /\ UNCHANGED healthVars
    /\ UNCHANGED hookVars
    /\ UNCHANGED adapterVars

\* history record: shutdown() returned at this time
ShutdownOp(at) == [call |-> 0, op |-> "shutdown", at |-> at]

HasShutDown == \E r \in cacheOps : r.op = "shutdown"

\* shutdown(): this.listeners = {} and this.cache.clear(); the intervals and
\* the calls in flight are left as they are.  Followed once.
Shutdown ==
    /\ ~HasShutDown
    /\ subscribers' = NoSubscribers
    /\ cache' = [key \in CacheKeys |-> None]
    /\ cacheOps' = cacheOps \cup {ShutdownOp(now)}
    /\ UNCHANGED <<config, gasServices, unresponsive, now, calls, cleanupTimers>>
    /\ UNCHANGED <<reqPc, attempt, lastError, reqResult, attemptLog, delays, notes>>
    /\ UNCHANGED engineVars
    /\ UNCHANGED healthVars
    /\ UNCHANGED hookVars
    /\ UNCHANGED adapterVars

\* a service on which makeRequest has not been called
RequestIdle ==
    /\ reqPc = "idle"
    /\ attempt = 0
    /\ lastError = None
    /\ reqResult = None
    /\ attemptLog = <<>>
    /\ delays = <<>>
    /\ notes = <<>>

\* isHealthy of a service: try { await this.makeRequest(path); return true }
\* catch { return false }.  What the call has returned once its makeRequest
\* has settled; None while it is pending.
isHealthy ==
    IF reqPc = "resolved" THEN [returned |-> TRUE]
    ELSE IF reqPc = "rejected" THEN [returned |-> FALSE]
    ELSE None

-----------------------------------------------------------------------------
(* Specifications *)

\* the decision engine over every bundle of the value sets above
EngineInit ==
    /\ EngineIdle
    /\ AggIdle
    /\ Constructed(KeysFor(GasServiceNames))
    /\ unresponsive = {}
    /\ RequestIdle
    /\ subscribers = NoSubscribers

EngineSpec == EngineInit /\ [][EngineNext]_vars

\* the decision engine over bundles with one gas quote, no L2 option and
\* routes whose amountOut ranges over WideAmountStrings
RouteNext ==
    \/ AnalyzeSwapCall
    \/ AnalyzeSwapResumeFrom(SingleGasDataLists, WideDexRouteLists, {<<>>})

RouteSpec == EngineInit /\ [][RouteNext]_vars

\* One analyzeSwap call with callbacks registered and removed before it
\* resumes, over bundles with one gas quote or none and no bridge quotes.
NotifyNext ==
    \/ \E event \in ListenerEvents, kind \in ListenerKinds : On(event, kind)
    \/ \E event \in ListenerEvents : Off(event)
    \/ AnalyzeSwapCall
    \/ AnalyzeSwapResumeFrom(SingleGasDataLists \cup {<<>>}, DexRouteLists, {<<>>})

NotifySpec == EngineInit /\ [][NotifyNext]_vars

\* getComprehensiveQuote calls made one after the other, both gas services
\* configured
Init ==
    /\ EngineIdle
    /\ AggIdle
    /\ Constructed(KeysFor(GasServiceNames))
    /\ unresponsive = {}
    /\ RequestIdle
    /\ subscribers = NoSubscribers

Earlier(c) == 1..(c - 1)

Next ==
    \/ \E c \in CallIds, request \in Requests :
          /\ \A d \in Earlier(c) : calls[d].pc = "returned"
          /\ StartQuote(c, request)
    \/ \E c \in CallIds, prefix \in Prefixes, p \in AllServiceNames,
          status \in {"fulfilled", "rejected"} :
          ProviderSettles(c, prefix, p, status)
    \/ Tick

Spec == Init /\ [][Next]_vars

\* getOptimizedGasData calls that may overlap
GasNext ==
    \/ \E c \in CallIds :
          /\ \A d \in Earlier(c) : calls[d].pc # "idle"
          /\ StartGas(c)
    \/ \E c \in CallIds, p \in AllServiceNames, status \in {"fulfilled", "rejected"} :
          ProviderSettles(c, "gas", p, status)
    \/ Tick

\* every configuration of gas services
GasInit ==
    /\ EngineIdle
    /\ AggIdle
    /\ \E services \in GasServiceConfigs : Constructed(KeysFor(services))
    /\ unresponsive = {}
    /\ RequestIdle
    /\ subscribers = NoSubscribers

GasSpec == GasInit /\ [][GasNext]_vars

\* getOptimizedGasData calls while the clock runs for two TTLs longer than in
\* the specifications above, with the cache cleanup started by the caller at
\* any time, or never; time passes, and a due cleanup pass runs
CleanupHorizon == (MaxTicks + 4) * ClockStep

CleanupTick == TickWithin(CleanupHorizon)

CleanupPasses == \E i \in 1..MaxTimers : CleanupPass(i)

CleanupNext ==
    \/ \E c \in CallIds :
          /\ \A d \in Earlier(c) : calls[d].pc # "idle"
          /\ StartGas(c)
    \/ \E c \in CallIds, p \in AllServiceNames, status \in {"fulfilled", "rejected"} :
          ProviderSettles(c, "gas", p, status)
    \/ StartCacheCleanup
    \/ CleanupPasses
    \/ CleanupTick

\* only the Blocknative key was provided
CleanupInit ==
    /\ EngineIdle
    /\ AggIdle
    /\ Constructed(KeysFor(<<"Blocknative">>))
    /\ unresponsive = {}
    /\ RequestIdle
    /\ subscribers = NoSubscribers

CleanupSpec ==
    CleanupInit /\ [][CleanupNext]_vars
        /\ WF_vars(CleanupTick) /\ WF_vars(CleanupPasses)

\* one getOptimizedGasData call and one getBestDEXRoutes call on a cold
\* cache, with every response body of Bodies
AdapterNext ==
    \/ \E prefix \in {"gas", "dex"} : FanOut(prefix)
    \/ \E q \in AdapterNames : \E data \in Bodies(q) : MakeRequestResolves(q, data)
    \/ \E q \in AdapterNames : MakeRequestRejects(q)

AdapterSpec == Init /\ [][AdapterNext]_vars

\* one makeRequest call, under every combination of subscribers
RetryInit ==
    /\ EngineIdle
    /\ AggIdle
    /\ Constructed(KeysFor(GasServiceNames))
    /\ unresponsive = {}
    /\ RequestIdle
    /\ subscribers \in [{"serviceSuccess", "serviceError"} -> SubscriberKinds]

RetryNext ==
    \/ MakeRequest
    \/ \E response \in Responses : FetchSettles(response)
    \/ DelayElapses

RetrySpec == RetryInit /\ [][RetryNext]_vars

\* one getComprehensiveQuote call while at most one service never answers; a
\* service that answers does so eventually
FairInit ==
    /\ EngineIdle
    /\ AggIdle
    /\ Constructed(KeysFor(GasServiceNames))
    /\ unresponsive \in { u \in SUBSET AllServiceNames : Cardinality(u) <= 1 }
    /\ RequestIdle
    /\ subscribers = NoSubscribers

AnswerStep ==
    \E c \in CallIds, prefix \in Prefixes, p \in AllServiceNames,
       status \in {"fulfilled", "rejected"} :
          ProviderSettles(c, prefix, p, status)

FairNext ==
    \/ \E request \in Requests : StartQuote(1, request)
    \/ AnswerStep

FairSpec == FairInit /\ [][FairNext]_vars /\ WF_vars(AnswerStep)

\* one checkServiceHealth call, for every configuration of gas services,
\* while at most one service never answers; a service that answers does so
\* eventually
HealthInit ==
    /\ EngineIdle
    /\ AggIdle
    /\ \E services \in GasServiceConfigs : Constructed(KeysFor(services))
    /\ unresponsive \in { u \in SUBSET AllServiceNames : Cardinality(u) <= 1 }
    /\ RequestIdle
    /\ subscribers = NoSubscribers

HealthAnswerStep ==
    \E i \in 1..Len(allServices), healthy \in BOOLEAN : HealthCheckSettles(i, healthy)

HealthNext ==
    \/ CheckServiceHealth
    \/ HealthAnswerStep

HealthSpec == HealthInit /\ [][HealthNext]_vars /\ WF_vars(HealthAnswerStep)

\* the orchestrator constructed with every config object, then
\* getOptimizedGasData calls and a checkServiceHealth call
ConfigInit ==
    /\ EngineIdle
    /\ AggIdle
    /\ \E cfg \in Configs : Constructed(cfg)
    /\ unresponsive = {}
    /\ RequestIdle
    /\ subscribers = NoSubscribers

ConfigNext ==
    \/ \E c \in CallIds :
          /\ \A d \in Earlier(c) : calls[d].pc # "idle"
          /\ StartGas(c)
    \/ \E c \in CallIds, q \in AllServiceNames, status \in {"fulfilled", "rejected"} :
          ProviderSettles(c, "gas", q, status)
    \/ CheckServiceHealth
    \/ HealthAnswerStep

ConfigSpec == ConfigInit /\ [][ConfigNext]_vars

\* getOptimizedGasData calls made one after the other, whose callers may
\* empty the list they received
AliasNext ==
    \/ \E c \in CallIds :
          /\ \A d \in Earlier(c) : calls[d].pc = "returned"
          /\ StartGas(c)
    \/ \E c \in CallIds, p \in AllServiceNames, status \in {"fulfilled", "rejected"} :
          ProviderSettles(c, "gas", p, status)
    \/ \E c \in CallIds : CallerEmpties(c, "gas")
    \/ Tick

AliasSpec == Init /\ [][AliasNext]_vars

\* getOptimizedGasData and getBestDEXRoutes calls made one after the other
\* while the clock runs, every service failing or answering
EmptySetNext ==
    \/ \E c \in CallIds :
          /\ \A d \in Earlier(c) : calls[d].pc = "returned"
          /\ \/ StartGas(c)
             \/ StartRoutes(c, BaseRequest)
    \/ \E c \in CallIds, prefix \in {"gas", "dex"}, p \in AllServiceNames,
          status \in {"fulfilled", "rejected"} :
          ProviderSettles(c, prefix, p, status)
    \/ Tick

EmptySetSpec == Init /\ [][EmptySetNext]_vars

\* getOptimizedGasData calls made one after the other while the clock runs,
\* each service answering at any time
StaleNext ==
    \/ \E c \in CallIds :
          /\ \A d \in Earlier(c) : calls[d].pc = "returned"
          /\ StartGas(c)
    \/ \E c \in CallIds, p \in AllServiceNames, status \in {"fulfilled", "rejected"} :
          ProviderSettlesAt(c, "gas", p, status)
    \/ Tick

StaleSpec == Init /\ [][StaleNext]_vars

\* a mounted component calls the hook's analyzeSwap, also while earlier
\* calls are awaited; the service finishes the calls in any order
HookNext ==
    \/ \E k \in HookCallIds : HookAnalyzeSwap(k)
    \/ \E k \in HookCallIds : HookAnalysisComplete(k)
    \/ \E k \in HookCallIds, e \in ServiceErrors : HookAnalysisError(k, e)
    \/ \E k \in HookCallIds, e \in ServiceErrors : HookCatches(k, e)
    \/ HookHealthArrives

HookSpec == Init /\ [][HookNext]_vars

\* an orchestrator with subscribers or without, on which gas calls are made,
\* a service fetches, eviction loops are started and run, the clock advances,
\* and shutdown is called at any moment
ShutdownInit ==
    /\ EngineIdle
    /\ AggIdle
    /\ Constructed(KeysFor(<<"Blocknative">>))
    /\ unresponsive = {}
    /\ RequestIdle
    /\ subscribers \in {NoSubscribers,
                        [serviceSuccess |-> "quiet", serviceError |-> "quiet"]}

ShutdownNext ==
    \/ \E c \in CallIds :
          /\ \A d \in Earlier(c) : calls[d].pc # "idle"
          /\ StartGas(c)
    \/ \E c \in CallIds, p \in AllServiceNames, status \in {"fulfilled", "rejected"} :
          ProviderSettles(c, "gas", p, status)
    \/ StartCacheCleanup
    \/ CleanupPasses
    \/ Tick
    \/ MakeRequest
    \/ \E response \in {"ok", "http500"} : FetchSettles(response)
    \/ DelayElapses
    \/ Shutdown

ShutdownSpec == ShutdownInit /\ [][ShutdownNext]_vars

\* getBestDEXRoutes calls made one after the other, with requests that
\* differ in one field or in none
RouteKeyNext ==
    \/ \E c \in CallIds, request \in RouteRequests :
          /\ \A d \in Earlier(c) : calls[d].pc = "returned"
          /\ StartRoutes(c, request)
    \/ \E c \in CallIds, p \in AllServiceNames, status \in {"fulfilled", "rejected"} :
          ProviderSettles(c, "dex", p, status)
    \/ Tick

RouteKeySpec == Init /\ [][RouteKeyNext]_vars

\* analyzeQuoteData run on a bundle at any time: before, during and after a
\* getOptimizedGasData call that fills the cache, while the clock runs
DecisionNext ==
    \/ AnalyzeSwapCall
    \/ AnalyzeSwapResumeFrom(SingleGasDataLists, DexRouteLists,
                             {l \in L2OptionLists : Len(l) <= 1})
    \/ StartGas(1)
    \/ \E p \in AllServiceNames, status \in {"fulfilled", "rejected"} :
          ProviderSettles(1, "gas", p, status)
    \/ Tick

DecisionSpec == Init /\ [][DecisionNext]_vars

\* one analyzeSwap call, from its params through the orchestrator's fan-out
\* to the recommendation
SwapNext ==
    \/ \E params \in SwapParams : AnalyzeSwap(params)
    \/ \E prefix \in Prefixes, p \in AllServiceNames,
          status \in {"fulfilled", "rejected"} :
          ProviderSettles(1, prefix, p, status)
    \/ AnalyzeSwapContinues

SwapSpec == Init /\ [][SwapNext]_vars

-----------------------------------------------------------------------------
(* Properties of the decision engine, checked under EngineSpec *)

Analyzed == svcPc \in {"Recommended", "Failed"}

\* the least element of a non-empty set of integers
SetMin(S) == CHOOSE x \in S : \A y \in S : x <= y

\* The figures the decision rule compares, stated from the bundle: the cost
\* at the selected gas quote and route, the saving of the cheapest bridge
\* quote, the saving at the cheapest forecast block.
CostNow ==
    GasCostUSD(outcome.bestGasData.currentGwei, outcome.bestRoute.route.gasEstimate)
        + outcome.bestRoute.fees.totalFeeUSD

BridgeExists == Len(quote.l2Options) > 0

BridgeSavings ==
    CostNow - SetMin({quote.l2Options[i].totalCostUSD : i \in 1..Len(quote.l2Options)})

WaitSavings ==
    LET f == outcome.bestGasData.forecast.next5Blocks
        cheapest == SetMin({f[i] : i \in 1..Len(f)})
        raw == GasCostUSD(outcome.bestGasData.currentGwei - cheapest,
                          outcome.bestRoute.route.gasEstimate)
    IN  IF outcome.bestGasData.currentGwei > cheapest THEN raw ELSE 0

WaitConfidence == outcome.bestGasData.forecast.confidence

BridgeQualifies ==
    BridgeExists /\ BridgeSavings > USD(5) /\ BridgeSavings > WaitSavings

WaitQualifies == WaitSavings > USD(2) /\ WaitConfidence > 70

\* C1: for every bundle with gas data and routes the action is use_l2 when a
\* bridge quote exists with bridge savings > 5 USD and > wait savings;
\* otherwise wait when wait savings > 2 USD and confidence > 0.7; otherwise
\* execute_now with savings amount 0.  All comparisons are strict.
C1_DecisionPriority ==
    svcPc = "Recommended" =>
        /\ BridgeQualifies => returned.recommendation = "use_l2"
        /\ ~BridgeQualifies /\ WaitQualifies => returned.recommendation = "wait"
        /\ ~BridgeQualifies /\ ~WaitQualifies =>
              /\ returned.recommendation = "execute_now"
              /\ returned.savings.amount = 0

\* a bridge quote saving exactly 5 USD, more than waiting saves, did not
\* qualify
C1_Witness ==
    /\ svcPc = "Recommended"
    /\ BridgeExists /\ BridgeSavings = USD(5) /\ BridgeSavings > WaitSavings
    /\ returned.recommendation = "execute_now"

\* further cases of C1 that are reached
C1_WitnessBridgeBelowWait ==
    /\ svcPc = "Recommended"
    /\ BridgeExists /\ BridgeSavings > USD(5) /\ BridgeSavings <= WaitSavings
    /\ WaitConfidence > 70
    /\ returned.recommendation = "wait"

C1_WitnessSavingsAtThreshold ==
    /\ svcPc = "Recommended"
    /\ ~BridgeQualifies /\ WaitSavings = USD(2) /\ WaitConfidence > 70
    /\ returned.recommendation = "execute_now"

C1_WitnessConfidenceAtThreshold ==
    /\ svcPc = "Recommended"
    /\ ~BridgeQualifies /\ WaitSavings > USD(2) /\ WaitConfidence = 70
    /\ returned.recommendation = "execute_now"

C1_WitnessBridge ==
    /\ svcPc = "Recommended"
    /\ BridgeQualifies /\ WaitQualifies
    /\ returned.recommendation = "use_l2"

\* C2: with an empty gas set or route set the call fails with the typed
\* error InsufficientData and has evaluated no selection or cost.
C2_Original ==
    (Analyzed /\ (Len(quote.gasData) = 0 \/ Len(quote.dexRoutes) = 0)) =>
        /\ svcPc = "Failed"
        /\ thrown.name = "InsufficientData"
        /\ outcome.computed = {}

\* what the code does in the case of C2: the call fails and returns no
\* recommendation; what is thrown is the generic Error wrapping the
\* TypeError of reducing an empty array, announced by analysis_error; no
\* route selection or cost was computed, and with an empty gas set nothing
\* was.
C2_EmptyFails ==
    (Analyzed /\ (Len(quote.gasData) = 0 \/ Len(quote.dexRoutes) = 0)) =>
        /\ svcPc = "Failed"
        /\ returned = None
        /\ thrown = [name |-> "Error",
                     message |-> <<"Fee optimization failed: ",
                                   "Reduce of empty array with no initial value">>]
        /\ svcEvents = <<[event |-> "analysis_error", data |-> ReduceTypeError]>>
        /\ outcome.computed \subseteq {"bestGasData"}
        /\ Len(quote.gasData) = 0 => outcome.computed = {}

\* the route set alone was empty: the gas selection ran, then the call failed
C2_Witness ==
    /\ svcPc = "Failed"
    /\ Len(quote.gasData) > 0 /\ Len(quote.dexRoutes) = 0
    /\ outcome.computed = {"bestGasData"}

C2_WitnessNoGas ==
    svcPc = "Failed" /\ Len(quote.gasData) = 0 /\ Len(quote.dexRoutes) > 0

\* C10: the selected gas quote has the lowest standard rate of the set, and
\* of the quotes sharing that rate it is the first in provider order.
C10_BestGasLowestStandardFirst ==
    svcPc = "Recommended" =>
        \E i \in 1..Len(quote.gasData) :
            /\ outcome.bestGasData = quote.gasData[i]
            /\ \A j \in 1..Len(quote.gasData) :
                  quote.gasData[i].standard <= quote.gasData[j].standard
            /\ \A j \in 1..(i - 1) :
                  quote.gasData[i].standard < quote.gasData[j].standard

\* two quotes share the lowest standard rate and differ otherwise: the first
\* was selected
C10_Witness ==
    /\ svcPc = "Recommended"
    /\ Len(quote.gasData) = 2
    /\ quote.gasData[1].standard = quote.gasData[2].standard
    /\ quote.gasData[1].forecast # quote.gasData[2].forecast
    /\ outcome.bestGasData = quote.gasData[1]

C10_WitnessSecondLower ==
    /\ svcPc = "Recommended"
    /\ Len(quote.gasData) = 2
    /\ quote.gasData[2].standard < quote.gasData[1].standard
    /\ outcome.bestGasData = quote.gasData[2]

-----------------------------------------------------------------------------
(* Properties of the aggregator, checked under Spec and GasSpec *)

\* the services whose promise was fulfilled in a sub-fetch
FulfilledIn(sub) == { p \in DOMAIN sub.settled : sub.settled[p] = "fulfilled" }

SourcesOf(data) == { data[i].source : i \in 1..Len(data) }

\* the part of a returned result that belongs to a kind of quote
PartOf(result, prefix) ==
    CASE prefix = "gas" -> result.gasData
      [] prefix = "dex" -> result.dexRoutes
      [] prefix = "l2"  -> result.l2Options

QuotesPerAnswer(prefix) == IF prefix = "l2" THEN 2 ELSE 1

\* C3: a sub-fetch that missed the cache returns once every service of its
\* kind has settled, and what it returns is exactly the quotes of the
\* services that succeeded, obtained for this call; the call returns them
\* whatever number of services failed.
C3_SuccessfulQuotesOnly ==
    \A c \in CallIds, prefix \in Prefixes :
        LET sub == calls[c].sub[prefix] IN
        sub.how = "miss" =>
            /\ DOMAIN sub.settled = SeqRange(ServicesOf(prefix))
            /\ sub.done <=> (\A p \in DOMAIN sub.settled : sub.settled[p] # "pending")
            /\ sub.done =>
                  /\ SourcesOf(sub.data) = FulfilledIn(sub)
                  /\ Len(sub.data) = QuotesPerAnswer(prefix) * Cardinality(FulfilledIn(sub))
                  /\ \A i \in 1..Len(sub.data) : sub.data[i].call = c
            /\ calls[c].pc = "returned" =>
                  PartOf(calls[c].result, prefix) = sub.data

\* one gas service of two failed: the call returned the other's quote alone
C3_Witness ==
    \E c \in CallIds :
        /\ calls[c].pc = "returned"
        /\ calls[c].sub["gas"].how = "miss"
        /\ calls[c].sub["gas"].settled =
              [p \in {"Blocknative", "Infura"} |->
                  IF p = "Infura" THEN "fulfilled" ELSE "rejected"]
        /\ Len(calls[c].result.gasData) = 1
        /\ calls[c].result.gasData[1].source = "Infura"

\* every service of every kind failed: the call returned three empty sets
C3_WitnessAllFailed ==
    \E c \in CallIds :
        /\ calls[c].pc = "returned"
        /\ \A prefix \in Prefixes :
              /\ calls[c].sub[prefix].how = "miss"
              /\ FulfilledIn(calls[c].sub[prefix]) = {}
        /\ calls[c].result.gasData = <<>>
        /\ calls[c].result.dexRoutes = <<>>
        /\ calls[c].result.l2Options = <<>>

\* C4: of two getOptimizedGasData calls, the first of which fanned out and the
\* second of which started less than a TTL later, the second is served from
\* the cache and both return the same set, also when the second started
\* while the first was in flight.
C4_Idempotent ==
    \A c \in CallIds, d \in CallIds :
        ( /\ c < d
          /\ calls[c].pc = "returned" /\ calls[d].pc = "returned"
          /\ calls[c].op = "gas" /\ calls[d].op = "gas"
          /\ calls[c].sub["gas"].how = "miss"
          /\ calls[d].startedAt - calls[c].startedAt < cacheTimeout )
        => /\ calls[d].sub["gas"].how = "hit"
           /\ calls[d].result = calls[c].result

\* what the code does for C4: the second call started while the first was
\* in flight, fanned out as well, and returned another set
C4_WitnessStampede ==
    /\ calls[1].pc = "returned" /\ calls[2].pc = "returned"
    /\ calls[1].startedAt = calls[2].startedAt
    /\ calls[1].sub["gas"].how = "miss" /\ calls[2].sub["gas"].how = "miss"
    /\ calls[1].result # calls[2].result

\* the sequential case of C4: a call started after the fan-out has stored
\* its result, less than a TTL after it, is served that result
C4_WitnessSequential ==
    /\ calls[1].pc = "returned" /\ calls[2].pc = "returned"
    /\ calls[1].sub["gas"].how = "miss" /\ calls[2].sub["gas"].how = "hit"
    /\ calls[2].startedAt > calls[1].startedAt
    /\ calls[1].result = calls[2].result
    /\ Len(calls[1].result.gasData) = 2

\* a sub-fetch of call c is started in this step
StartsNow(c, prefix) ==
    /\ calls[c].sub[prefix].how = "unused"
    /\ calls'[c].sub[prefix].how \in {"hit", "miss"}

\* C5: a sub-fetch is served from the cache exactly when the entry of its key
\* exists and is younger than the TTL of 30 s, and is then served that
\* entry's payload; otherwise it fans out, and when the fan-out completes the
\* entry is overwritten with its result and the time of completion.
C5_Expiry ==
    [][ \A c \in CallIds, prefix \in Prefixes :
          LET key == KeyOf(prefix, calls'[c].request) IN
          /\ StartsNow(c, prefix) =>
                /\ calls'[c].sub[prefix].how = "hit" <=>
                      (cache[key] # None /\ now - cache[key].timestamp < 30000)
                /\ calls'[c].sub[prefix].how = "hit" =>
                      calls'[c].sub[prefix].data = cache[key].data
          /\ prefix \in JoinsNow(calls[c], calls'[c]) =>
                /\ cache'[key] # None
                /\ cache'[key].data = calls'[c].sub[prefix].data
                /\ cache'[key].timestamp = now
      ]_vars

\* a call made exactly one TTL after the entry was stored has fanned out; the
\* entry, not yet overwritten, is still in the cache
C5_Witness ==
    \E c \in CallIds :
        LET key == KeyOf("gas", calls[c].request) IN
        /\ calls[c].pc = "fetching"
        /\ calls[c].sub["gas"].how = "miss"
        /\ ~calls[c].sub["gas"].done
        /\ cache[key] # None
        /\ calls[c].startedAt - cache[key].timestamp = cacheTimeout

\* an entry half a TTL old was served
C5_WitnessServed ==
    \E c \in CallIds :
        LET key == KeyOf("dex", calls[c].request) IN
        /\ calls[c].pc = "returned"
        /\ calls[c].sub["dex"].how = "hit"
        /\ cache[key] # None
        /\ calls[c].startedAt - cache[key].timestamp = ClockStep
        /\ calls[c].result.dexRoutes = cache[key].data

\* the expired entry was overwritten by the fresh fan-out
C5_WitnessOverwritten ==
    /\ calls[1].pc = "returned" /\ calls[2].pc = "returned"
    /\ calls[1].sub["gas"].how = "miss" /\ calls[2].sub["gas"].how = "miss"
    /\ calls[2].startedAt - calls[1].startedAt >= cacheTimeout
    /\ cache[KeyOf("gas", None)].data = calls[2].result.gasData
    /\ calls[2].result.gasData # calls[1].result.gasData

\* C8: getComprehensiveQuote starts its three sub-fetches together, has
\* returned exactly when all three have completed, and returns the three
\* sets they returned.
C8_JoinsAllThree ==
    \A c \in CallIds :
        calls[c].op = "quote" =>
            /\ \A prefix \in Prefixes : calls[c].sub[prefix].how # "unused"
            /\ calls[c].pc = "returned" <=>
                  (\A prefix \in Prefixes : calls[c].sub[prefix].done)
            /\ calls[c].pc = "returned" =>
                  /\ calls[c].result.gasData = calls[c].sub["gas"].data
                  /\ calls[c].result.dexRoutes = calls[c].sub["dex"].data
                  /\ calls[c].result.l2Options = calls[c].sub["l2"].data

\* all three sub-fetches fanned out, all got quotes, the call returned them
C8_Witness ==
    \E c \in CallIds :
        /\ calls[c].pc = "returned"
        /\ \A prefix \in Prefixes :
              /\ calls[c].sub[prefix].how = "miss"
              /\ calls[c].sub[prefix].data # <<>>
        /\ calls[c].result.gasData = calls[c].sub["gas"].data

\* completion in any order: the bridge sub-fetch alone has completed, or it
\* alone has not, and the call is still waiting
C8_WitnessBridgeFirst ==
    \E c \in CallIds :
        /\ calls[c].pc = "fetching"
        /\ calls[c].sub["l2"].how = "miss" /\ calls[c].sub["l2"].done
        /\ calls[c].sub["gas"].how = "miss" /\ ~calls[c].sub["gas"].done
        /\ calls[c].sub["dex"].how = "miss" /\ ~calls[c].sub["dex"].done

C8_WitnessBridgeLast ==
    \E c \in CallIds :
        /\ calls[c].pc = "fetching"
        /\ calls[c].sub["l2"].how = "miss" /\ ~calls[c].sub["l2"].done
        /\ calls[c].sub["gas"].how = "miss" /\ calls[c].sub["gas"].done
        /\ calls[c].sub["dex"].how = "miss" /\ calls[c].sub["dex"].done

\* C9: for a request without a destination chain getL2Alternatives returns
\* the empty set, invokes no L2 service and neither reads nor writes the
\* cache; L2 services are invoked only for requests naming a destination
\* chain.
C9_NoDestinationNoBridge ==
    \A c \in CallIds :
        calls[c].op = "quote" =>
            /\ "toChain" \notin DOMAIN calls[c].request =>
                  /\ calls[c].sub["l2"].data = <<>>
                  /\ calls[c].sub["l2"].done
                  /\ DOMAIN calls[c].sub["l2"].settled = {}
                  /\ ~ \E o \in cacheOps : o.call = c /\ o.key[1] = "l2"
                  /\ cache[<<"l2", JsonStringify(calls[c].request)>>] = None
                  /\ calls[c].pc = "returned" => calls[c].result.l2Options = <<>>
            /\ DOMAIN calls[c].sub["l2"].settled # {} =>
                  "toChain" \in DOMAIN calls[c].request

\* a request without destination chain was answered with gas and route
\* quotes and no bridge quote, while an earlier request with a destination
\* chain had bridge quotes fetched
C9_Witness ==
    /\ calls[1].pc = "returned" /\ calls[2].pc = "returned"
    /\ calls[1].request = L2Request
    /\ calls[1].result.l2Options # <<>>
    /\ calls[2].request = BaseRequest
    /\ calls[2].result.l2Options = <<>>
    /\ calls[2].result.gasData # <<>>
    /\ calls[2].result.dexRoutes # <<>>

-----------------------------------------------------------------------------
(* Properties of makeRequest, checked under RetrySpec *)

FailedBefore(n) == \A i \in 1..(n - 1) : attemptLog[i] # "ok"

\* the retry budget as a statement about one makeRequest call
RetryBudget ==
    /\ Len(attemptLog) <= 3
    /\ FailedBefore(Len(attemptLog))
    /\ \A i \in 1..Len(attemptLog) :
          (attemptLog[i] = "http500" /\ i < 3) =>
              (Len(attemptLog) > i \/ reqPc \in {"waiting", "fetching"})
    /\ reqPc = "resolved" => attemptLog[Len(attemptLog)] = "ok"
    /\ reqPc = "rejected" =>
          /\ Len(attemptLog) = 3
          /\ FailedBefore(4)
          /\ reqResult.error.message[4] = AttemptError(attemptLog[3]).message

\* C6: a fetch makes at most 3 network attempts, none after the first
\* successful one, retries after a non-2xx response, and fails only after the
\* third consecutive failed attempt, the failure carrying the last
\* underlying error.
C6_RetryBudget == RetryBudget

\* C6 where no subscriber throws: the budget is kept
C6_BudgetQuietSubscribers ==
    (subscribers.serviceSuccess # "throws" /\ subscribers.serviceError # "throws")
        => RetryBudget

\* a successful attempt was followed by another attempt: the subscriber to
\* serviceSuccess threw inside the try block
C6_WitnessRetryAfterSuccess ==
    /\ Len(attemptLog) = 2
    /\ attemptLog[1] = "ok"
    /\ subscribers.serviceSuccess = "throws"

\* the fetch failed after a single failed attempt: the subscriber to
\* serviceError threw inside the catch block
C6_WitnessFailsEarly ==
    /\ reqPc = "rejected"
    /\ Len(attemptLog) = 1
    /\ reqResult.error = SubscriberError

\* three failed attempts, the last a non-2xx response, and the failure names it
C6_WitnessExhausted ==
    /\ reqPc = "rejected"
    /\ attemptLog = <<"network", "badjson", "http500">>
    /\ delays = <<100, 200>>
    /\ reqResult.error.message[4] = "HTTP 500: Internal Server Error"

-----------------------------------------------------------------------------
(* Termination of getComprehensiveQuote, checked under FairSpec *)

\* C7: every getComprehensiveQuote call eventually returns, also when one
\* service never answers.
C7_EveryCallReturns ==
    \A c \in CallIds : (calls[c].pc = "fetching") ~> (calls[c].pc = "returned")

\* a call whose every service answers does return
C7_ReturnsWhenAllAnswer ==
    \A c \in CallIds :
        (calls[c].pc = "fetching" /\ unresponsive = {}) ~> (calls[c].pc = "returned")

\* what the code does for C7: every service but one has answered, none can
\* answer any more, and the call is still waiting
C7_WitnessStalled ==
    /\ unresponsive = {"ParaSwap"}
    /\ calls[1].pc = "fetching"
    /\ calls[1].sub["gas"].done
    /\ calls[1].sub["dex"].settled["1inch"] = "fulfilled"
    /\ calls[1].sub["dex"].settled["ParaSwap"] = "pending"
    /\ ~ ENABLED AnswerStep

-----------------------------------------------------------------------------
(* Properties of the route selection, checked under RouteSpec *)

\* the integer an amountOut string denotes, as hi * 10^9 + lo
Parsable(s) == s # "n/a"

ExactAmount(s) ==
    CASE s = "1000" -> <<0, 1000>>
      [] s = "2000" -> <<0, 2000>>
      [] s = "9007199254740992" -> <<9007199, 254740992>>
      [] s = "9007199254740993" -> <<9007199, 254740993>>

AmountAtLeast(s, t) ==
    LET a == ExactAmount(s)
        b == ExactAmount(t)
    IN  a[1] > b[1] \/ (a[1] = b[1] /\ a[2] >= b[2])

RouteAmount(i) == quote.dexRoutes[i].route.amountOut

\* route i is the first of the routes with the greatest amountOut among
\* those whose amountOut is a number
BestByAmountOut(i) ==
    /\ Parsable(RouteAmount(i))
    /\ \A j \in 1..Len(quote.dexRoutes) :
          Parsable(RouteAmount(j)) => AmountAtLeast(RouteAmount(i), RouteAmount(j))
    /\ \A j \in 1..(i - 1) :
          Parsable(RouteAmount(j)) => ~AmountAtLeast(RouteAmount(j), RouteAmount(i))

\* C11: the selected route has an amountOut, compared as the integer it
\* denotes, at least that of every other route, the first such on ties, and
\* a route whose amountOut is not a number is never the one selected.
C11_BestRouteHighestAmountOut ==
    svcPc = "Recommended" =>
        \E i \in 1..Len(quote.dexRoutes) :
            outcome.bestRoute = quote.dexRoutes[i] /\ BestByAmountOut(i)

\* what the code does for C11 on amounts a double holds exactly: the claim
\* holds when every amountOut is one of AmountStrings
C11_HoldsForSmallAmounts ==
    (svcPc = "Recommended"
        /\ \A j \in 1..Len(quote.dexRoutes) : RouteAmount(j) \in AmountStrings)
    => \E i \in 1..Len(quote.dexRoutes) :
            outcome.bestRoute = quote.dexRoutes[i] /\ BestByAmountOut(i)

\* the second route's amountOut is greater by one unit past 2^53: the first
\* was selected
C11_WitnessPrecision ==
    /\ svcPc = "Recommended"
    /\ Len(quote.dexRoutes) = 2
    /\ RouteAmount(1) = "9007199254740992"
    /\ RouteAmount(2) = "9007199254740993"
    /\ outcome.bestRoute = quote.dexRoutes[1]

\* the first route's amountOut is not a number: it was selected over a route
\* with a numeric amountOut
C11_WitnessUnparsable ==
    /\ svcPc = "Recommended"
    /\ Len(quote.dexRoutes) = 2
    /\ RouteAmount(1) = "n/a"
    /\ RouteAmount(2) = "2000"
    /\ outcome.bestRoute = quote.dexRoutes[1]

-----------------------------------------------------------------------------
(* Properties of the cost figures, checked under EngineSpec *)

\* the cost of the selected route at the selected gas quote's standard rate
CostAtStandard ==
    GasCostUSD(outcome.bestGasData.standard, outcome.bestRoute.route.gasEstimate)
        + outcome.bestRoute.fees.totalFeeUSD

\* C12: the current cost reported is the selected route's gas estimate priced
\* at the selected gas quote's standard rate, plus the route's fee.
C12_CostFromStandardRate ==
    svcPc = "Recommended" => returned.routes.current.cost = CostAtStandard

\* what the code does for C12: the cost is priced at the selected quote's
\* currentGwei, which is the claimed figure when the two rates agree
C12_CostFromCurrentGwei ==
    svcPc = "Recommended" =>
        /\ returned.routes.current.cost = CostNow
        /\ outcome.bestGasData.currentGwei = outcome.bestGasData.standard =>
              returned.routes.current.cost = CostAtStandard

\* the quote selected for its standard rate of 40 has a current rate of 60,
\* and the cost reported is the one at 60
C12_Witness ==
    /\ svcPc = "Recommended"
    /\ outcome.bestGasData.standard = 40
    /\ outcome.bestGasData.currentGwei = 60
    /\ returned.routes.current.cost > CostAtStandard
    /\ returned.routes.current.cost = CostNow


\* the forecast of the selected gas quote, and the hypothetical cost of the
\* selected route at forecast block i
ForecastRates == outcome.bestGasData.forecast.next5Blocks

ForecastCost(i) ==
    GasCostUSD(ForecastRates[i], outcome.bestRoute.route.gasEstimate)
        + outcome.bestRoute.fees.totalFeeUSD

MinForecastCost == SetMin({ForecastCost(i) : i \in 1..Len(ForecastRates)})

\* the earliest block, counted from 1, with the least hypothetical cost
IndexOfMin ==
    SetMin({i \in 1..Len(ForecastRates) : ForecastCost(i) = MinForecastCost})

\* what calculateWaitSavings returned in the call
WaitSavingsReturned ==
    calculateWaitSavings(outcome.bestGasData, outcome.bestRoute)

\* the wait-savings statement, for a given current cost
WaitSavingsFrom(currentCost) ==
    /\ WaitSavingsReturned.amount = Max(0, currentCost - MinForecastCost)
    /\ WaitSavingsReturned.amount >= 0
    /\ WaitSavingsReturned.waitTime = IndexOfMin * 12
    /\ WaitSavingsReturned.confidence = outcome.bestGasData.forecast.confidence
    /\ returned.timing.confidence = outcome.bestGasData.forecast.confidence
    /\ returned.recommendation = "wait" =>
          /\ returned.savings.amount = WaitSavingsReturned.amount
          /\ returned.timing.waitTime = WaitSavingsReturned.waitTime

\* C13: wait savings are max(0, current cost at the standard rate - least
\* forecast cost), never negative; the wait time is 12 s times the position
\* of the earliest cheapest forecast block; the confidence is the quote's.
C13_WaitSavings ==
    svcPc = "Recommended" => WaitSavingsFrom(CostAtStandard)

\* what the code does for C13: the same statement with the current cost
\* priced at currentGwei
C13_WaitSavingsAtCurrentGwei ==
    svcPc = "Recommended" => WaitSavingsFrom(CostNow)

\* a wait recommendation whose savings are those from currentGwei 60, three
\* times the savings from the standard rate 40
C13_Witness ==
    /\ svcPc = "Recommended"
    /\ returned.recommendation = "wait"
    /\ outcome.bestGasData.standard = 40
    /\ outcome.bestGasData.currentGwei = 60
    /\ returned.savings.amount = CostNow - MinForecastCost
    /\ returned.savings.amount = 3 * (CostAtStandard - MinForecastCost)

\* two forecast blocks tie for the cheapest: the wait time is the earlier's
C13_WitnessTie ==
    /\ svcPc = "Recommended"
    /\ returned.recommendation = "wait"
    /\ ForecastRates[4] = ForecastRates[5]
    /\ IndexOfMin = 4
    /\ returned.timing.waitTime = 48

\* the forecast is dearer than the current rate throughout: savings are 0
C13_WitnessClamped ==
    /\ svcPc = "Recommended"
    /\ CostNow < MinForecastCost
    /\ WaitSavingsReturned.amount = 0

\* what the engine computes as bridge savings (line 199), for the call's bundle
L2SavingsComputed ==
    l2Savings(currentTotalCostUSD(outcome.bestGasData, outcome.bestRoute),
              quote.l2Options)

\* the evaluated bridge quote is the first of the cheapest in the bundle
CheapestBridgeFirst ==
    /\ \A i \in 1..Len(quote.l2Options) :
          outcome.bestL2Option.totalCostUSD <= quote.l2Options[i].totalCostUSD
    /\ \E i \in 1..Len(quote.l2Options) :
          /\ quote.l2Options[i] = outcome.bestL2Option
          /\ \A j \in 1..(i - 1) :
                quote.l2Options[j].totalCostUSD > outcome.bestL2Option.totalCostUSD

\* the bridge statement, for a given current cost: savings clamped at 0
BridgeSavingsFrom(currentCost) ==
    /\ BridgeExists =>
          /\ CheapestBridgeFirst
          /\ L2SavingsComputed =
                Max(0, currentCost - outcome.bestL2Option.totalCostUSD)
          /\ L2SavingsComputed >= 0
          /\ returned.recommendation = "use_l2" =>
                returned.savings.amount = L2SavingsComputed
    /\ ~BridgeExists => returned.recommendation # "use_l2"

\* C14: with bridge quotes the engine evaluates the first of the cheapest;
\* bridge savings are max(0, current cost at the standard rate - its total
\* cost), never negative; without a bridge quote use_l2 is never recommended.
C14_BridgeSavings ==
    svcPc = "Recommended" => BridgeSavingsFrom(CostAtStandard)

\* what the code does for C14: the baseline is the cost at currentGwei and the
\* difference is not clamped; a reported use_l2 saving is positive all the same
C14_BridgeSavingsAsComputed == svcPc = "Recommended" =>
    /\ BridgeExists =>
          /\ CheapestBridgeFirst
          /\ L2SavingsComputed = CostNow - outcome.bestL2Option.totalCostUSD
          /\ returned.recommendation = "use_l2" =>
                /\ returned.savings.amount = L2SavingsComputed
                /\ returned.savings.amount > USD(5)
    /\ ~BridgeExists => returned.recommendation # "use_l2"

\* a bridge recommendation whose reported savings are those from currentGwei
\* 60, not from the standard rate 40
C14_Witness ==
    /\ svcPc = "Recommended"
    /\ returned.recommendation = "use_l2"
    /\ outcome.bestGasData.standard = 40
    /\ outcome.bestGasData.currentGwei = 60
    /\ returned.savings.amount = CostNow - outcome.bestL2Option.totalCostUSD
    /\ returned.savings.amount > CostAtStandard - outcome.bestL2Option.totalCostUSD

\* the cheapest bridge quote is dearer than executing now: the engine's
\* bridge savings are negative
C14_WitnessNegative ==
    /\ svcPc = "Recommended"
    /\ BridgeExists
    /\ L2SavingsComputed < 0

\* two bridge quotes tie for the cheapest and the first is evaluated
C14_WitnessTie ==
    /\ svcPc = "Recommended"
    /\ Len(quote.l2Options) = 2
    /\ quote.l2Options[1].totalCostUSD = quote.l2Options[2].totalCostUSD
    /\ quote.l2Options[1] # quote.l2Options[2]
    /\ outcome.bestL2Option = quote.l2Options[1]


\* the current route of a recommendation: the selected route's provider and
\* gas estimate with the engine's current cost
CurrentRouteReported ==
    /\ returned.routes.current.protocol = outcome.bestRoute.source
    /\ returned.routes.current.cost = CostNow
    /\ returned.routes.current.gasEstimate = outcome.bestRoute.route.gasEstimate

\* the optimal route of a recommendation, given the cost reported for a
\* bridge recommendation
OptimalRouteReported(bridgeCost) ==
    LET optimal == returned.routes.optimal
    IN  /\ returned.recommendation = "use_l2" =>
              /\ optimal.protocol = outcome.bestL2Option.source
              /\ optimal.cost = bridgeCost
              /\ optimal.execution = "l2"
        /\ returned.recommendation = "wait" =>
              /\ optimal.protocol = outcome.bestRoute.source
              /\ optimal.cost = CostNow - returned.savings.amount
              /\ optimal.execution = "delayed"
        /\ returned.recommendation = "execute_now" =>
              /\ optimal.protocol = outcome.bestRoute.source
              /\ optimal.cost = CostNow
              /\ optimal.execution = "immediate"

\* C15: the optimal route matches the branch taken: for use_l2 the bridge
\* provider and the bridge quote's total cost, whatever its value, 0 included;
\* for wait the current provider and current cost less wait savings; for
\* execute_now the current provider and cost.  The current route is always
\* the selected route's provider, current cost and gas estimate.
C15_OptimalRouteMatchesBranch == svcPc = "Recommended" =>
    /\ CurrentRouteReported
    /\ OptimalRouteReported(outcome.bestL2Option.totalCostUSD)

\* what the code does for C15: a bridge quote of total cost 0 is reported at
\* the current cost
C15_ZeroBridgeCostReportedAsCurrent == svcPc = "Recommended" =>
    /\ CurrentRouteReported
    /\ OptimalRouteReported(IF outcome.bestL2Option.totalCostUSD = 0
                            THEN CostNow
                            ELSE outcome.bestL2Option.totalCostUSD)

\* a bridge recommendation for a bridge quote that costs nothing, reported at
\* the cost of executing now
C15_Witness ==
    /\ svcPc = "Recommended"
    /\ returned.recommendation = "use_l2"
    /\ outcome.bestL2Option.totalCostUSD = 0
    /\ returned.routes.optimal.cost = returned.routes.current.cost
    /\ returned.routes.optimal.cost > 0
    /\ returned.savings.amount = returned.routes.current.cost

\* a bridge recommendation for a bridge quote with a cost, reported at it
C15_WitnessPaidBridge ==
    /\ svcPc = "Recommended"
    /\ returned.recommendation = "use_l2"
    /\ outcome.bestL2Option.totalCostUSD = USD(8)
    /\ returned.routes.optimal.cost = USD(8)


\* a later forecast block is cheaper than executing now
CheaperLater == WaitSavingsReturned.amount > 0

\* C16: the wait time is present in a recommendation exactly when the action
\* is wait, and then it is the wait time of the cheapest forecast block;
\* it is absent for execute_now and use_l2, also when the forecast shows a
\* cheaper later block.
C16_WaitTimeOnlyWhenWaiting == svcPc = "Recommended" =>
    /\ "waitTime" \in DOMAIN returned.timing <=> returned.recommendation = "wait"
    /\ returned.recommendation = "wait" =>
          returned.timing.waitTime = WaitSavingsReturned.waitTime

\* an execute_now recommendation with a cheaper later block and no wait time
C16_Witness ==
    /\ svcPc = "Recommended"
    /\ returned.recommendation = "execute_now"
    /\ CheaperLater
    /\ "waitTime" \notin DOMAIN returned.timing

\* a use_l2 recommendation with a cheaper later block and no wait time
C16_WitnessBridge ==
    /\ svcPc = "Recommended"
    /\ returned.recommendation = "use_l2"
    /\ CheaperLater
    /\ "waitTime" \notin DOMAIN returned.timing

\* a wait recommendation carrying its wait time
C16_WitnessWait ==
    /\ svcPc = "Recommended"
    /\ returned.recommendation = "wait"
    /\ returned.timing.waitTime = IndexOfMin * 12


-----------------------------------------------------------------------------
(* Properties of the notifications, checked under NotifySpec *)

\* how many times the event was emitted in the call
Emitted(event) == Len(SelectSeq(svcEvents, LAMBDA e : e.event = event))

\* the statement of one terminal notification per call
OneTerminalNotification ==
    /\ Emitted("analysis_complete") + Emitted("analysis_error") = 1
    /\ svcPc = "Recommended" <=> Emitted("analysis_complete") = 1
    /\ svcPc = "Failed" <=> Emitted("analysis_error") = 1
    /\ svcPc = "Recommended" =>
          svcEvents = <<[event |-> "analysis_complete", data |-> returned]>>
    /\ svcPc = "Failed" => svcEvents[Len(svcEvents)].event = "analysis_error"

\* C17: every analyzeSwap call emits exactly one terminal notification:
\* analysis_complete with the recommendation exactly when it returns,
\* analysis_error with the error exactly when it fails; never both, never none.
C17_OneTerminalNotification == Analyzed => OneTerminalNotification

\* what the code does for C17: the statement holds whenever the callbacks
\* registered for analysis_complete do not throw
C17_OneNotificationUnlessListenerThrows ==
    Analyzed /\ ~EmitRaises("analysis_complete") => OneTerminalNotification

\* the analysis succeeded, a callback of analysis_complete threw: both events
\* were emitted and the call failed
C17_Witness ==
    /\ svcPc = "Failed"
    /\ ~outcome.threw
    /\ listeners["analysis_complete"] = "throws"
    /\ Emitted("analysis_complete") = 1
    /\ Emitted("analysis_error") = 1
    /\ svcEvents[2].data = ListenerError
    /\ thrown = WrappedError(ListenerError)

\* a callback of analysis_error threw: the call fails with the callback's
\* error instead of the wrapped one
C17_WitnessErrorListenerThrows ==
    /\ svcPc = "Failed"
    /\ outcome.threw
    /\ listeners["analysis_error"] = "throws"
    /\ thrown = ListenerError

\* a call that returned with callbacks registered for both events
C17_WitnessQuiet ==
    /\ svcPc = "Recommended"
    /\ listeners["analysis_complete"] = "quiet"
    /\ listeners["analysis_error"] = "quiet"
    /\ OneTerminalNotification


-----------------------------------------------------------------------------
(* Properties of isHealthy, checked under RetrySpec *)

HealthSettled == reqPc \in {"resolved", "rejected"}

\* the provider answered a probe request with a 2xx response and a JSON body
ProbeSucceeded == \E i \in 1..Len(attemptLog) : attemptLog[i] = "ok"

\* the health statement: a boolean is returned, true exactly when a probe
\* request succeeded
HealthReflectsProbe ==
    /\ isHealthy.returned \in BOOLEAN
    /\ isHealthy.returned <=> ProbeSucceeded

\* C18: a health check never throws or rejects; it returns true when its
\* probe request succeeds and false for any failure (network error, non-2xx
\* response, exhausted retries).
C18_HealthReflectsProbe == HealthSettled => HealthReflectsProbe

\* what the code does for C18: the statement holds when no subscriber to
\* serviceSuccess throws, and a boolean is returned in every case
C18_HealthUnlessSubscriberThrows == HealthSettled =>
    /\ isHealthy.returned \in BOOLEAN
    /\ subscribers.serviceSuccess # "throws" => HealthReflectsProbe

\* the provider answered every probe request, the subscriber to
\* serviceSuccess threw each time, and the service is reported unhealthy
C18_Witness ==
    /\ reqPc = "rejected"
    /\ attemptLog = <<"ok", "ok", "ok">>
    /\ subscribers.serviceSuccess = "throws"
    /\ isHealthy.returned = FALSE

\* exhausted retries map to false
C18_WitnessExhausted ==
    /\ reqPc = "rejected"
    /\ attemptLog = <<"network", "http500", "badjson">>
    /\ isHealthy.returned = FALSE

\* a probe that succeeds on a retry maps to true
C18_WitnessHealthy ==
    /\ reqPc = "resolved"
    /\ attemptLog = <<"network", "ok">>
    /\ isHealthy.returned = TRUE


-----------------------------------------------------------------------------
(* Properties of checkServiceHealth, checked under HealthSpec *)

\* the returned map has exactly one boolean entry for each configured service
OneEntryPerAdapter ==
    /\ DOMAIN healthChecks.health = { ClassName(allServices[i]) : i \in 1..Len(allServices) }
    /\ Cardinality(DOMAIN healthChecks.health) = Len(allServices)
    /\ \A i \in 1..Len(allServices) :
          /\ healthChecks.health[ClassName(allServices[i])] \in BOOLEAN
          /\ healthChecks.health[ClassName(allServices[i])] =
                healthChecks.checks[i].value.healthy

\* C19: checkServiceHealth checks every configured service concurrently and
\* always returns a map with exactly one boolean entry for each of them; a
\* failing health check never makes the call fail or leaves its service out.
C19_AlwaysOneEntryPerAdapter ==
    /\ [](healthChecks.pc = "returned" => OneEntryPerAdapter)
    /\ (healthChecks.pc = "checking") ~> (healthChecks.pc = "returned")

\* what the code does for C19: a map that is returned has one boolean entry
\* for each configured service
C19_OneEntryWhenReturned ==
    healthChecks.pc = "returned" => OneEntryPerAdapter

\* and the map is returned when every configured service answers
C19_ReturnsWhenAllAnswer ==
    (healthChecks.pc = "checking"
        /\ \A i \in 1..Len(allServices) : allServices[i] \notin unresponsive)
      ~> (healthChecks.pc = "returned")

\* every service but one has answered its check, that one never answers, and
\* checkServiceHealth has not returned
C19_Witness ==
    /\ healthChecks.pc = "checking"
    /\ Len(allServices) = 5
    /\ \E i \in 1..Len(allServices) :
          /\ allServices[i] \in unresponsive
          /\ healthChecks.checks[i].status = "pending"
          /\ \A j \in 1..Len(allServices) :
                j # i => healthChecks.checks[j].status = "fulfilled"

\* a returned map with healthy and unhealthy services side by side
C19_WitnessMixed ==
    /\ healthChecks.pc = "returned"
    /\ Len(allServices) = 5
    /\ healthChecks.health["BlocknativeGasService"] = FALSE
    /\ healthChecks.health["LiFiL2Service"] = TRUE
    /\ OneEntryPerAdapter


-----------------------------------------------------------------------------
(* Properties of analyzeSwap's input handling, checked under SwapSpec *)

\* the trade request of the analyzeSwap call
SwapRequest == calls[1].request

\* a token identifier is missing, or the amount is not positive
Malformed(request) ==
    \/ "fromToken" \notin DOMAIN request
    \/ request.fromToken = ""
    \/ "toToken" \notin DOMAIN request
    \/ request.toToken = ""
    \/ request.amount \in {"0", "-1"}

SwapCalled == svcPc # "Idle"

\* a request was sent to a provider for the call
ProviderCalled ==
    \E prefix \in Prefixes : DOMAIN calls[1].sub[prefix].settled # {}

\* C20: a malformed trade request is rejected with InvalidInput before any
\* provider is called and before the cache is read or written.
C20_MalformedRejectedEarly ==
    (SwapCalled /\ Malformed(SwapRequest)) =>
        /\ svcPc = "Failed"
        /\ thrown.name = "InvalidInput"
        /\ ~ProviderCalled
        /\ cacheOps = {}

\* what the code does for C20: whatever the request, the cache is read and
\* the providers are called as soon as analyzeSwap is called, and the only
\* error analyzeSwap raises is the wrapped one
C20_EveryRequestIsFetched ==
    SwapCalled =>
        /\ GetOp(1, "gas", SwapRequest) \in cacheOps
        /\ GetOp(1, "dex", SwapRequest) \in cacheOps
        /\ DOMAIN calls[1].sub["gas"].settled = SeqRange(gasServices)
        /\ DOMAIN calls[1].sub["dex"].settled = SeqRange(DexServiceNames)
        /\ svcPc = "Failed" => thrown.name = "Error"

\* a request with amount 0 went to the providers, its routes were cached
\* under its key and a recommendation was returned
C20_Witness ==
    /\ svcPc = "Recommended"
    /\ SwapRequest.amount = "0"
    /\ Malformed(SwapRequest)
    /\ ProviderCalled
    /\ calls[1].sub["dex"].settled["1inch"] = "fulfilled"
    /\ cache[KeyOf("dex", SwapRequest)] # None
    /\ [call |-> 1, op |-> "set", key |-> KeyOf("dex", SwapRequest)] \in cacheOps

\* a request without fromToken is waiting for its providers
C20_WitnessMissingToken ==
    /\ svcPc = "Fetching"
    /\ "fromToken" \notin DOMAIN SwapRequest
    /\ calls[1].pc = "fetching"
    /\ calls[1].sub["dex"].settled["1inch"] = "pending"

\* the well-formed request is handled the same way
C20_WitnessWellFormed ==
    /\ svcPc = "Recommended"
    /\ SwapRequest = BaseRequest
    /\ ~Malformed(SwapRequest)


-----------------------------------------------------------------------------
(* Properties of the cache cleanup, checked under CleanupSpec *)

GasKey == KeyOf("gas", None)

\* the entry of the gas key, as written at time t
StoredAt(t) == cache[GasKey] # None /\ cache[GasKey].timestamp = t

\* that entry has been deleted or overwritten
GoneOrRefreshed(t) == cache[GasKey] = None \/ cache[GasKey].timestamp # t

\* the write times for which two TTLs pass within the horizon
EvictableStamps ==
    { t \in { k * ClockStep : k \in 0..(MaxTicks + 4) } :
        t + 2 * cacheTimeout <= CleanupHorizon }

\* C21: from construction onward, without the caller starting anything, an
\* eviction pass runs every TTL, so every cache entry that is not overwritten
\* is eventually removed after it expires.
C21_ExpiredEntriesEvicted ==
    \A t \in EvictableStamps : StoredAt(t) ~> GoneOrRefreshed(t)

\* what the code does for C21: entries are removed once the caller has called
\* startCacheCleanup, by the first pass that finds them older than the TTL
C21_EvictedOnceCleanupStarted ==
    \A t \in EvictableStamps :
        (StoredAt(t) /\ Len(cleanupTimers) > 0
            /\ cleanupTimers[1] <= t + 2 * cacheTimeout)
          ~> GoneOrRefreshed(t)

\* a pass deletes nothing younger than or as old as the TTL
C21_PassKeepsYoungEntries ==
    [][(CleanupPasses /\ cache[GasKey] # None
            /\ now - cache[GasKey].timestamp <= cacheTimeout)
          => cache'[GasKey] = cache[GasKey]]_vars

\* startCacheCleanup was never called: an entry two TTLs old is still stored
C21_Witness ==
    /\ cleanupTimers = <<>>
    /\ cache[GasKey] # None
    /\ now - cache[GasKey].timestamp >= 2 * cacheTimeout
    /\ now = CleanupHorizon

\* a pass has just run at the moment an entry was exactly one TTL old: the
\* entry is expired for readers and still stored
C21_WitnessKeptAtTTL ==
    /\ Len(cleanupTimers) > 0
    /\ cleanupTimers[1] = now + cacheTimeout
    /\ cleanupTimers[1] > cacheTimeout
    /\ cache[GasKey] # None
    /\ now - cache[GasKey].timestamp = cacheTimeout
    /\ ~Fresh(GasKey)

\* a pass has deleted an entry
C21_WitnessEvicted ==
    /\ cache[GasKey] = None
    /\ \E op \in cacheOps : op.op = "delete" /\ op.key = GasKey


-----------------------------------------------------------------------------
(* Properties of the quotes the services build, checked under AdapterSpec *)

\* a numeric field of a quote holds a number that came from the response
Numeric(v) == IsNum(v) \/ ("str" \in DOMAIN v /\ v.str \in DOMAIN DecimalValue)

\* every numeric field of the response a quote is built from is there and
\* parses as a number
BodyIsNumeric(p, data) ==
    CASE p = "Blocknative" -> data.blockPrices /\ Numeric(data.standardPrice)
                                               /\ Numeric(data.fastPrice)
      [] p = "Infura"      -> data.medium /\ Numeric(data.suggestedMaxFeePerGas)
      [] p = "1inch"       -> Numeric(data.toTokenAmount) /\ Numeric(data.estimatedGas)
      [] p = "ParaSwap"    -> Numeric(data.destAmount) /\ Numeric(data.gasCost)
                                                       /\ Numeric(data.gasCostUSD)

\* the quote of service p was built from a response with numeric fields
SoundQuote(p) == adapters[p].pc = "fulfilled" /\ BodyIsNumeric(p, adapters[p].body)

\* C22: a response with a missing or unparseable numeric field fails the
\* fetch: no quote built from such a response is returned by a service,
\* placed in a result set or stored in the cache.
C22_NoDefaultedQuotes ==
    /\ \A p \in AdapterNames : adapters[p].pc = "fulfilled" => SoundQuote(p)
    /\ \A prefix \in {"gas", "dex"} :
          /\ resultSets[prefix].returned =>
                \A i \in 1..Len(resultSets[prefix].quotes) :
                    SoundQuote(resultSets[prefix].quotes[i].source)
          /\ cache[AdapterKey(prefix)] # None =>
                \A i \in 1..Len(cache[AdapterKey(prefix)].data) :
                    SoundQuote(cache[AdapterKey(prefix)].data[i].source)

\* what the code does for C22: the fetch fails only when the object the
\* fields are read from is missing altogether; otherwise a quote is built
\* whatever the fields hold
C22_QuoteBuiltUnlessObjectMissing ==
    \A p \in AdapterNames :
        /\ adapters[p].pc = "fulfilled" =>
              /\ adapters[p].body # Missing
              /\ p = "Blocknative" => adapters[p].body.blockPrices
              /\ p = "Infura" => adapters[p].body.medium
        /\ (adapters[p].pc = "rejected" /\ adapters[p].body # Missing) =>
              /\ p \in {"Blocknative", "Infura"}
              /\ ~BodyIsNumeric(p, adapters[p].body)

\* Blocknative's response had no standard price: its quote, standard rate 0,
\* was returned and cached; 1inch's response had no amount and an
\* unparseable gas figure: its route, gasEstimate NaN, was returned and cached
C22_Witness ==
    /\ resultSets["gas"].returned
    /\ Len(resultSets["gas"].quotes) > 0
    /\ resultSets["gas"].quotes[1].source = "Blocknative"
    /\ resultSets["gas"].quotes[1].standard = Num(0)
    /\ adapters["Blocknative"].pc = "fulfilled"
    /\ adapters["Blocknative"].body.standardPrice = Missing
    /\ cache[AdapterKey("gas")].data = resultSets["gas"].quotes
    /\ resultSets["dex"].returned
    /\ Len(resultSets["dex"].quotes) > 0
    /\ resultSets["dex"].quotes[1].source = "1inch"
    /\ resultSets["dex"].quotes[1].route.amountOut = Missing
    /\ resultSets["dex"].quotes[1].route.gasEstimate = NaN
    /\ resultSets["dex"].quotes[1].fees.totalFeeUSD = NaN
    /\ cache[AdapterKey("dex")].data = resultSets["dex"].quotes

\* a response without the object the prices are read from fails the fetch
C22_WitnessRejected ==
    /\ adapters["Infura"].pc = "rejected"
    /\ adapters["Infura"].body # Missing
    /\ ~adapters["Infura"].body.medium
    /\ resultSets["gas"].returned
    /\ \A i \in 1..Len(resultSets["gas"].quotes) : resultSets["gas"].quotes[i].source # "Infura"


-----------------------------------------------------------------------------
(* Properties of the construction, checked under ConfigSpec *)

KeyOfService(p) == IF p = "Blocknative" THEN "blocknativeKey" ELSE "infuraKey"

\* the services a gas fan-out or a health check has called
GasCalled ==
    UNION { DOMAIN calls[c].sub["gas"].settled : c \in CallIds }

HealthChecked ==
    { allServices[i] : i \in 1..Len(healthChecks.checks) }

\* C23: for every combination of gas keys, none included, the orchestrator is
\* constructed; a gas service is in the gas fan-out set exactly when its key
\* was given, and a service outside the set is called neither by
\* getOptimizedGasData nor by checkServiceHealth.
C23_GasServiceIffKey ==
    \A p \in SeqRange(GasServiceNames) :
        /\ p \in SeqRange(gasServices) <=> KeyGiven(config, KeyOfService(p))
        /\ ~KeyGiven(config, KeyOfService(p)) =>
              /\ p \notin GasCalled
              /\ p \notin HealthChecked
              /\ healthChecks.pc = "returned" =>
                    ClassName(p) \notin DOMAIN healthChecks.health

\* only the Infura key was given: the gas fan-out called Infura alone and the
\* health map has no entry for Blocknative
C23_Witness ==
    /\ "blocknativeKey" \notin DOMAIN config
    /\ KeyGiven(config, "infuraKey")
    /\ gasServices = <<"Infura">>
    /\ GasCalled = {"Infura"}
    /\ healthChecks.pc = "returned"
    /\ DOMAIN healthChecks.health =
          {"InfuraGasService", "OneInchDEXService", "ParaSwapDEXService", "LiFiL2Service"}

\* no key was given: the gas fan-out returns an empty list without a call
C23_WitnessNoKeys ==
    /\ config = [field \in {} |-> ""]
    /\ gasServices = <<>>
    /\ calls[1].pc = "returned"
    /\ calls[1].result.gasData = <<>>
    /\ GasCalled = {}

\* an empty key counts as no key
C23_WitnessEmptyKey ==
    /\ "blocknativeKey" \in DOMAIN config
    /\ config.blocknativeKey = ""
    /\ "Blocknative" \notin SeqRange(gasServices)
    /\ calls[1].pc = "returned"


-----------------------------------------------------------------------------
(* Properties of the decision rule at different times, checked under
   DecisionSpec *)

\* the figures of a recommendation the claim names
Figures(analysis) ==
    [action |-> analysis.recommendation,
     amount |-> analysis.savings.amount,
     percentage |-> analysis.savings.percentage,
     waitTime |-> IF "waitTime" \in DOMAIN analysis.timing
                  THEN {analysis.timing.waitTime} ELSE {}]

C24_WitnessLateCall ==
    /\ svcPc = "Recommended"
    /\ returned.recommendation = "use_l2"
    /\ now > 0
    /\ calls[1].pc = "fetching"

-----------------------------------------------------------------------------
(* Properties of the route cache key, checked under RouteKeySpec *)

\* the fields the claim keys the route cache by
TradeKey(request) ==
    << request.fromToken, request.toToken, request.amount, request.slippage >>

\* call d was made before call c and less than one TTL before it; the calls
\* are made one after the other, so the entry call d wrote or read was
\* younger than the TTL when call c looked for it
Within(c, d) ==
    /\ d \in Earlier(c)
    /\ calls[c].pc # "idle"
    /\ calls[c].startedAt - calls[d].startedAt < cacheTimeout

\* C25 as claimed: a getBestDEXRoutes call made less than one TTL after
\* another is served from the cache, without a fan-out, when the two requests
\* agree on fromToken, toToken, amount and slippage, whatever their
\* userAddress, priority and chains; and a call is served from the cache only
\* if an earlier request agreed with its own on the four fields.
C25_KeyedByTradeFields ==
    \A c \in CallIds :
        /\ \A d \in CallIds :
              Within(c, d) /\ TradeKey(calls[c].request) = TradeKey(calls[d].request)
                  => calls[c].sub["dex"].how = "hit"
        /\ calls[c].sub["dex"].how = "hit" =>
              \E d \in Earlier(c) :
                  TradeKey(calls[c].request) = TradeKey(calls[d].request)

\* what holds: the call is served from the cache when the earlier request is
\* equal to its own in every field, and only if one is; requests that differ
\* in one of the four fields do not share an entry
C25_KeyedByWholeRequest ==
    \A c \in CallIds :
        /\ \A d \in CallIds :
              Within(c, d) /\ JsonStringify(calls[c].request) = JsonStringify(calls[d].request)
                  => calls[c].sub["dex"].how = "hit"
        /\ calls[c].sub["dex"].how = "hit" =>
              \E d \in Earlier(c) :
                  /\ calls[c].request = calls[d].request
                  /\ TradeKey(calls[c].request) = TradeKey(calls[d].request)

\* two calls at the same time whose requests differ in userAddress only: the
\* second one called the DEX services again and wrote a second entry
C25_Witness ==
    /\ calls[1].pc = "returned" /\ calls[2].pc = "returned"
    /\ calls[1].request = BaseRequest
    /\ calls[2].request = [BaseRequest EXCEPT !.userAddress = "0xOther"]
    /\ calls[2].startedAt = calls[1].startedAt
    /\ calls[2].sub["dex"].how = "miss"
    /\ cache[KeyOf("dex", calls[1].request)] # None
    /\ cache[KeyOf("dex", calls[2].request)] # None

\* equal requests within the TTL: the second call is a cache hit
C25_WitnessShared ==
    /\ calls[1].pc = "returned" /\ calls[2].pc = "returned"
    /\ calls[1].request = calls[2].request
    /\ calls[1].sub["dex"].how = "miss"
    /\ calls[2].sub["dex"].how = "hit"

\* requests that differ in slippage: no sharing
C25_WitnessOtherSlippage ==
    /\ calls[1].pc = "returned" /\ calls[2].pc = "returned"
    /\ calls[1].request = BaseRequest
    /\ calls[2].request = [BaseRequest EXCEPT !.slippage = "1"]
    /\ calls[2].startedAt = calls[1].startedAt
    /\ calls[2].sub["dex"].how = "miss"

-----------------------------------------------------------------------------
(* Properties of the course of one analyzeSwap call, checked under SwapSpec *)

Terminal == {"Recommended", "Failed"}

\* the getComprehensiveQuote calls made so far
QuoteCalls == { c \in CallIds : calls[c].op = "quote" }

\* the service promises that have not settled
InFlight ==
    { <<c, prefix, p>> \in CallIds \X Prefixes \X AllServiceNames :
        /\ p \in DOMAIN calls[c].sub[prefix].settled
        /\ calls[c].sub[prefix].settled[p] = "pending" }

\* C26: an analyzeSwap call goes from Idle to Fetching and from Fetching, its
\* bundle received and analysed in one run, to Recommended or Failed, and
\* nowhere else; it calls getComprehensiveQuote once; in Recommended and in
\* Failed nothing changes any more, no service promise is pending and none is
\* created.
C26_OneFetchThenTerminal ==
    [][/\ svcPc' # svcPc =>
            \/ svcPc = "Idle" /\ svcPc' = "Fetching"
            \/ svcPc = "Fetching" /\ svcPc' \in Terminal
       /\ Cardinality(QuoteCalls') = IF svcPc' = "Idle" THEN 0 ELSE 1
       /\ svcPc \in Terminal =>
            /\ svcPc' = svcPc
            /\ calls' = calls
            /\ InFlight = {}]_vars

\* a failed call: both gas services were rejected, the analysis threw on the
\* empty gas list; one getComprehensiveQuote call was made, nothing is pending
C26_Witness ==
    /\ svcPc = "Failed"
    /\ thrown # None
    /\ QuoteCalls = {1}
    /\ calls[1].pc = "returned"
    /\ calls[1].result.gasData = <<>>
    /\ InFlight = {}

\* a call that ended with a recommendation
C26_WitnessRecommended ==
    /\ svcPc = "Recommended"
    /\ QuoteCalls = {1}
    /\ calls[1].pc = "returned"
    /\ InFlight = {}

\* the call waits in Fetching while service promises are pending
C26_WitnessFetching ==
    /\ svcPc = "Fetching"
    /\ QuoteCalls = {1}
    /\ InFlight # {}

-----------------------------------------------------------------------------
(* Properties of the delays of makeRequest, checked under RetrySpec *)

\* the delays taken are 100 ms, then 200 ms; attempt 1 is preceded by none,
\* every later attempt by its delay, and none follows the last attempt
DelaysLinear ==
    /\ \A k \in 1..Len(delays) : delays[k] = k * rateLimitDelay
    /\ Len(delays) <= retryAttempts - 1
    /\ reqPc = "fetching" => Len(delays) = attempt - 1
    /\ reqPc = "waiting" => Len(delays) = attempt /\ attempt < retryAttempts
    /\ reqPc \in {"resolved", "rejected"} => Len(delays) = Len(attemptLog) - 1

\* a wait of k x 100 ms was taken after each failed attempt k = 1, 2
WaitAfterEachFailure ==
    \A k \in 1..(retryAttempts - 1) :
        (Len(attemptLog) >= k /\ attemptLog[k] # "ok") =>
            (Len(delays) >= k /\ delays[k] = k * rateLimitDelay)

\* C27: attempt 1 is issued at once; after failed attempt k, k = 1, 2, the
\* service waits k x 100 ms and then issues attempt k+1; after the third
\* failed attempt it waits no more and reports the failure.
C27_LinearBackoff == DelaysLinear /\ WaitAfterEachFailure

\* what holds in every case: the delays that are taken are 100 ms and 200 ms,
\* one before each attempt after the first, none after the last
C27_DelaysLinear == DelaysLinear

\* C27 where the subscriber to serviceError does not throw
C27_BackoffQuietSubscriber ==
    subscribers.serviceError # "throws" => (DelaysLinear /\ WaitAfterEachFailure)

\* attempt 1 failed and the failure was reported with no wait and no second
\* attempt: the subscriber to serviceError threw inside the catch block
C27_Witness ==
    /\ reqPc = "rejected"
    /\ attemptLog = <<"http500">>
    /\ delays = <<>>
    /\ subscribers.serviceError = "throws"

\* three failed attempts with quiet subscribers: waits of 100 ms and 200 ms,
\* none after the third
C27_WitnessExhausted ==
    /\ reqPc = "rejected"
    /\ Len(attemptLog) = 3
    /\ delays = <<100, 200>>
    /\ subscribers.serviceError = "quiet"

\* waiting after the second failed attempt
C27_WitnessSecondWait ==
    /\ reqPc = "waiting"
    /\ attempt = 2
    /\ delays = <<100, 200>>

-----------------------------------------------------------------------------
(* Properties of the notifications of makeRequest, checked under RetrySpec *)

\* the notifications forwarded during attempt i
NotesOf(i) == { k \in 1..Len(notes) : notes[k].during = i }

NotesOfKind(event) == { k \in 1..Len(notes) : notes[k].event = event }

\* the object the service emitted, inside the forwarded one
EmittedBy(note) ==
    IF note.event = "serviceSuccess" THEN note.payload.data ELSE note.payload.error

CarriesService(note) ==
    "service" \in DOMAIN note.payload /\ "service" \in DOMAIN EmittedBy(note)

CarriesAttempt(note) == "attempt" \in DOMAIN EmittedBy(note)

\* C28: every finished attempt has forwarded exactly one notification,
\* serviceSuccess for a successful attempt and serviceError for a failed one,
\* with the service and the attempt number in it; a makeRequest that failed
\* after k attempts has forwarded k serviceError and no serviceSuccess.
C28_OneNotificationPerAttempt ==
    /\ \A i \in 1..Len(attemptLog) :
          /\ Cardinality(NotesOf(i)) = 1
          /\ \A k \in NotesOf(i) :
                /\ notes[k].event = IF attemptLog[i] = "ok" THEN "serviceSuccess"
                                    ELSE "serviceError"
                /\ CarriesService(notes[k])
                /\ CarriesAttempt(notes[k])
    /\ reqPc = "rejected" =>
          /\ Cardinality(NotesOfKind("serviceError")) = Len(attemptLog)
          /\ NotesOfKind("serviceSuccess") = {}

\* what holds: every finished attempt has forwarded its notification, with
\* the service in it; serviceError carries the attempt number, serviceSuccess
\* does not; a failed attempt forwards serviceError alone, a successful one
\* serviceSuccess, and serviceError after it exactly when a subscriber to
\* serviceSuccess threw
C28_NotificationsAsEmitted ==
    /\ \A i \in 1..Len(attemptLog) :
          /\ \A k \in NotesOf(i) :
                /\ CarriesService(notes[k])
                /\ CarriesAttempt(notes[k]) <=> notes[k].event = "serviceError"
                /\ CarriesAttempt(notes[k]) => EmittedBy(notes[k]).attempt = i
          /\ attemptLog[i] # "ok" =>
                /\ Cardinality(NotesOf(i)) = 1
                /\ \A k \in NotesOf(i) : notes[k].event = "serviceError"
          /\ attemptLog[i] = "ok" =>
                /\ Cardinality(NotesOf(i) \cap NotesOfKind("serviceSuccess")) = 1
                /\ Cardinality(NotesOf(i) \cap NotesOfKind("serviceError")) =
                      IF subscribers.serviceSuccess = "throws" THEN 1 ELSE 0
    /\ \A k \in 1..Len(notes) : notes[k].during \in 1..Len(attemptLog)
    /\ (reqPc = "rejected" /\ subscribers.serviceSuccess # "throws") =>
          /\ Cardinality(NotesOfKind("serviceError")) = Len(attemptLog)
          /\ NotesOfKind("serviceSuccess") = {}

\* a first attempt that succeeded, quiet subscribers: its one notification
\* has the service but no attempt number
C28_Witness ==
    /\ reqPc = "resolved"
    /\ attemptLog = <<"ok">>
    /\ subscribers.serviceSuccess = "quiet"
    /\ Len(notes) = 1
    /\ notes[1].event = "serviceSuccess"
    /\ CarriesService(notes[1])
    /\ ~CarriesAttempt(notes[1])

\* three successful attempts, each followed by the throw of a subscriber to
\* serviceSuccess: the fetch failed with three serviceSuccess and three
\* serviceError notifications
C28_WitnessBothKinds ==
    /\ reqPc = "rejected"
    /\ attemptLog = <<"ok", "ok", "ok">>
    /\ Cardinality(NotesOfKind("serviceSuccess")) = 3
    /\ Cardinality(NotesOfKind("serviceError")) = 3

\* three failed attempts: three serviceError notifications numbered 1, 2, 3
C28_WitnessExhausted ==
    /\ reqPc = "rejected"
    /\ Len(attemptLog) = 3
    /\ Len(notes) = 3
    /\ \A k \in 1..3 :
          notes[k].event = "serviceError" /\ notes[k].payload.error.attempt = k

-----------------------------------------------------------------------------
(* Properties of the cache under overlapping calls and cleanup passes,
   checked under CleanupSpec *)

\* call c's method of the given kind completes its fan-out in this step and
\* writes the entry of the key
WritesNow(c, prefix, key) ==
    /\ calls'[c].request \in DOMAIN KeyTable[prefix]
    /\ key = KeyOf(prefix, calls'[c].request)
    /\ calls'[c].sub[prefix].how = "miss"
    /\ calls'[c].sub[prefix].done
    /\ ~calls[c].sub[prefix].done
    /\ cache'[key] # None
    /\ cache'[key].data = calls'[c].sub[prefix].data
    /\ cache'[key].timestamp = now

\* call c's method of the given kind starts in this step and is served from
\* the entry of its key
ReadsNow(c, prefix) ==
    /\ calls[c].pc = "idle"
    /\ calls'[c].sub[prefix].how = "hit"

\* C29: getFromCache, setCache and the cleanup callback each run as one step,
\* whatever the order of overlapping calls and cleanup passes.  An entry
\* changes only by a write that stores a call's list together with the time
\* of that write, or by a pass that finds it older than the TTL; a call
\* served from the cache receives the list of an entry as a write stored it,
\* younger than the TTL; a pass removes no entry that is not older than the
\* TTL, and removes and records only entries that are there.
C29_CacheStepsAtomic ==
    [][/\ \A key \in CacheKeys :
            cache'[key] # cache[key] =>
                \/ /\ cache'[key] # None
                   /\ \E c \in CallIds, prefix \in Prefixes : WritesNow(c, prefix, key)
                \/ /\ cache'[key] = None
                   /\ Stale(key)
                   /\ CleanupPasses
                   /\ [call |-> 0, op |-> "delete", key |-> key] \in cacheOps'
       /\ \A c \in CallIds, prefix \in Prefixes :
            ReadsNow(c, prefix) =>
                LET key == KeyOf(prefix, calls'[c].request)
                IN  /\ Fresh(key)
                    /\ calls'[c].sub[prefix].data = cache[key].data
                    /\ cache'[key] = cache[key]
       /\ \A rec \in cacheOps' \ cacheOps :
            rec.op = "delete" => cache[rec.key] # None /\ cache'[rec.key] = None]_vars

\* every entry in the cache is the list of one call with a time at which
\* that call was in progress
C29_EntriesWhole ==
    \A key \in CacheKeys :
        cache[key] # None =>
            \E c \in CallIds, prefix \in Prefixes :
                /\ [call |-> c, op |-> "set", key |-> key] \in cacheOps
                /\ cache[key].data = calls[c].sub[prefix].data
                /\ calls[c].startedAt <= cache[key].timestamp
                /\ cache[key].timestamp <= now

\* two overlapping calls both wrote the gas entry, two cleanup intervals were
\* started, a pass removed the entry of the first write, and the entry now
\* stored is the second call's, written later
C29_Witness ==
    /\ Len(cleanupTimers) = 2
    /\ [call |-> 1, op |-> "set", key |-> GasKey] \in cacheOps
    /\ [call |-> 2, op |-> "set", key |-> GasKey] \in cacheOps
    /\ [call |-> 0, op |-> "delete", key |-> GasKey] \in cacheOps
    /\ calls[1].sub["gas"].how = "miss" /\ calls[2].sub["gas"].how = "miss"
    /\ calls[2].startedAt = calls[1].startedAt
    /\ cache[GasKey] # None
    /\ cache[GasKey].timestamp > 2 * cacheTimeout
    /\ cache[GasKey].data = calls[2].sub["gas"].data

\* both intervals were due at the same time and the entry was removed
C29_WitnessTwoPasses ==
    /\ Len(cleanupTimers) = 2
    /\ cleanupTimers[1] = cleanupTimers[2]
    /\ cleanupTimers[1] > now
    /\ [call |-> 0, op |-> "delete", key |-> GasKey] \in cacheOps
    /\ cache[GasKey] = None

\* a call served from the entry another call wrote
C29_WitnessRead ==
    /\ calls[2].sub["gas"].how = "hit"
    /\ calls[1].sub["gas"].how = "miss"
    /\ calls[2].sub["gas"].data = calls[1].sub["gas"].data
    /\ cleanupTimers # <<>>

-----------------------------------------------------------------------------
(* Properties of the arrays handed out by the cache, checked under AliasSpec *)

\* the calls whose method of the given kind has returned an array
Holders(prefix) ==
    { c \in CallIds : calls[c].sub[prefix].done
                        /\ calls[c].sub[prefix].how \in {"hit", "miss"} }

\* the caller of call c has emptied the array it received
HasEmptied(c) == \E rec \in cacheOps : rec.call = c /\ rec.op = "mutate"

\* C30: no two calls hold the same array and no call holds the array of a
\* cache entry, so a list emptied by one caller stays as it was everywhere
\* else: the list of a call whose caller emptied nothing is what its services
\* delivered, if it fanned out, and what the call it was served after
\* received, if it was served from the cache.
C30_NoAliasing ==
    \A prefix \in Prefixes :
        /\ \A c \in Holders(prefix), d \in Holders(prefix) :
              c # d => calls[c].sub[prefix].ref # calls[d].sub[prefix].ref
        /\ \A c \in Holders(prefix), key \in CacheKeys :
              cache[key] # None => cache[key].ref # calls[c].sub[prefix].ref
        /\ \A c \in Holders(prefix) :
              (~HasEmptied(c) /\ calls[c].sub[prefix].how = "miss") =>
                  calls[c].sub[prefix].data = Fulfilled(prefix, c, calls[c].sub[prefix].settled)

\* what holds: the array a call returns is the one its own fan-out built or
\* the one found in the cache, which is the array of the call that wrote the
\* entry; an entry and the calls holding its array show the same contents
C30_SharedByReference ==
    \A prefix \in Prefixes :
        /\ \A c \in Holders(prefix) :
              LET r == calls[c].sub[prefix].ref IN
              /\ calls[c].sub[prefix].how = "miss" => r = <<c, prefix>>
              /\ calls[c].sub[prefix].how = "hit" =>
                    /\ r[1] \in Earlier(c)
                    /\ calls[r[1]].sub[prefix].ref = r
                    /\ calls[r[1]].sub[prefix].data = calls[c].sub[prefix].data
        /\ \A key \in CacheKeys, c \in Holders(prefix) :
              (cache[key] # None /\ cache[key].ref = calls[c].sub[prefix].ref) =>
                  cache[key].data = calls[c].sub[prefix].data

\* call 1 fanned out and both gas services answered; call 2 was served from
\* the entry; the caller of call 2 emptied its list: the list call 1 returned
\* and the cache entry are empty too
C30_Witness ==
    /\ calls[1].pc = "returned" /\ calls[2].pc = "returned"
    /\ calls[1].sub["gas"].how = "miss"
    /\ \A p \in {"Blocknative", "Infura"} : calls[1].sub["gas"].settled[p] = "fulfilled"
    /\ calls[2].sub["gas"].how = "hit"
    /\ calls[2].sub["gas"].ref = calls[1].sub["gas"].ref
    /\ HasEmptied(2) /\ ~HasEmptied(1)
    /\ calls[1].result.gasData = <<>>
    /\ cache[KeyOf("gas", None)] # None
    /\ cache[KeyOf("gas", None)].data = <<>>

\* the caller of call 1 emptied its list before call 2 was made: call 2 was
\* served the emptied list from the cache
C30_WitnessServedEmptied ==
    /\ calls[1].pc = "returned" /\ calls[2].pc = "returned"
    /\ \A p \in {"Blocknative", "Infura"} : calls[1].sub["gas"].settled[p] = "fulfilled"
    /\ HasEmptied(1) /\ ~HasEmptied(2)
    /\ calls[2].sub["gas"].how = "hit"
    /\ calls[2].result.gasData = <<>>

-----------------------------------------------------------------------------
(* Properties of the reported costs, checked under EngineSpec *)

CostsAddUp ==
    returned.routes.optimal.cost =
        returned.routes.current.cost - returned.savings.amount

\* C33: in every recommendation, whatever the action and whatever the bridge
\* cost, 0 included, the optimal route's cost is the current route's cost
\* less the savings amount.
C33_OptimalIsCurrentLessSavings == svcPc = "Recommended" => CostsAddUp

\* what holds: the costs add up for execute_now, for wait, and for use_l2
\* with a bridge quote that costs something; for a bridge quote of cost 0
\* the optimal cost is the current cost while the savings are the current
\* cost too
C33_AddsUpUnlessBridgeIsFree == svcPc = "Recommended" =>
    IF returned.recommendation = "use_l2" /\ outcome.bestL2Option.totalCostUSD = 0
    THEN /\ returned.routes.optimal.cost = returned.routes.current.cost
         /\ returned.savings.amount = returned.routes.current.cost
         /\ ~CostsAddUp
    ELSE CostsAddUp

\* use_l2 for a bridge quote of cost 0: optimal cost and savings are both the
\* current cost, so optimal cost exceeds current cost less savings, which is 0
C33_Witness ==
    /\ svcPc = "Recommended"
    /\ returned.recommendation = "use_l2"
    /\ outcome.bestL2Option.totalCostUSD = 0
    /\ returned.routes.current.cost - returned.savings.amount = 0
    /\ returned.routes.optimal.cost > USD(5)

\* the three actions with costs that add up
C33_WitnessWait ==
    /\ svcPc = "Recommended"
    /\ returned.recommendation = "wait"
    /\ returned.savings.amount > 0
    /\ CostsAddUp

C33_WitnessPaidBridge ==
    /\ svcPc = "Recommended"
    /\ returned.recommendation = "use_l2"
    /\ outcome.bestL2Option.totalCostUSD = USD(8)
    /\ CostsAddUp

-----------------------------------------------------------------------------
(* Properties of the default action, checked under EngineSpec *)

\* C34: execute_now is returned only when no bridge quote exists or the
\* bridge savings are at most 5 USD, and the wait savings are at most 2 USD
\* or the confidence is at most 0.7; a bundle whose best bridge quote saves
\* more than 5 USD never yields execute_now.
C34_ExecuteNowOnlyBelowThresholds ==
    (svcPc = "Recommended" /\ returned.recommendation = "execute_now") =>
        /\ ~BridgeExists \/ BridgeSavings <= USD(5)
        /\ WaitSavings <= USD(2) \/ WaitConfidence <= 70

\* what holds: execute_now is returned only when the wait alternative is
\* below its threshold and the bridge alternative is absent, saves at most
\* 5 USD, or saves no more than waiting would
C34_ExecuteNowAsDecided ==
    (svcPc = "Recommended" /\ returned.recommendation = "execute_now") =>
        /\ ~BridgeExists \/ BridgeSavings <= USD(5) \/ BridgeSavings <= WaitSavings
        /\ WaitSavings <= USD(2) \/ WaitConfidence <= 70

\* the best bridge quote saves more than 5 USD, waiting would save at least
\* as much but is not trusted: execute_now
C34_Witness ==
    /\ svcPc = "Recommended"
    /\ returned.recommendation = "execute_now"
    /\ BridgeExists
    /\ BridgeSavings > USD(5)
    /\ BridgeSavings <= WaitSavings
    /\ WaitConfidence <= 70

\* execute_now with both alternatives below their thresholds
C34_WitnessBelow ==
    /\ svcPc = "Recommended"
    /\ returned.recommendation = "execute_now"
    /\ BridgeExists /\ BridgeSavings <= USD(5)
    /\ WaitSavings <= USD(2)

-----------------------------------------------------------------------------
(* Properties of the bridge alternative in analyzeSwap, checked under
   SwapSpec *)

-----------------------------------------------------------------------------
(* Properties of cached empty lists, checked under EmptySetSpec *)

\* call d ran the method of the given kind, every service it called failed,
\* and it stored and returned the empty list
AllFailed(d, prefix) ==
    /\ calls[d].sub[prefix].how = "miss"
    /\ calls[d].sub[prefix].done
    /\ DOMAIN calls[d].sub[prefix].settled # {}
    /\ \A p \in DOMAIN calls[d].sub[prefix].settled :
          calls[d].sub[prefix].settled[p] = "rejected"

\* call c ran the same method with the same key after call d, less than one
\* TTL after call d was made
SameKeyWithinTTL(c, d, prefix) ==
    /\ d \in Earlier(c)
    /\ calls[c].sub[prefix].how # "unused"
    /\ calls[c].request = calls[d].request
    /\ calls[c].startedAt - calls[d].startedAt < cacheTimeout

\* C35: a getOptimizedGasData or getBestDEXRoutes call made while the entry
\* of its key holds the empty list, stored less than one TTL ago by a call
\* whose services all failed, is served the empty list from the cache: it
\* returns at once, calls no service and leaves the entry as it is.
C35_EmptySetServedFromCache ==
    [][\A c \in CallIds, prefix \in {"gas", "dex"} :
          (calls[c].pc = "idle" /\ calls'[c].sub[prefix].how # "unused") =>
              LET key == KeyOf(prefix, calls'[c].request) IN
              (/\ cache[key] # None
               /\ cache[key].data = <<>>
               /\ now - cache[key].timestamp < cacheTimeout) =>
                  /\ calls'[c].sub[prefix].how = "hit"
                  /\ calls'[c].sub[prefix].data = <<>>
                  /\ DOMAIN calls'[c].sub[prefix].settled = {}
                  /\ calls'[c].pc = "returned"
                  /\ cache' = cache]_vars

\* the same seen from the calls: after a call in which every service failed,
\* a call with the same key made less than one TTL after it was made is
\* served the empty list
C35_SecondCallServedEmpty ==
    \A c \in CallIds, d \in CallIds, prefix \in {"gas", "dex"} :
        (AllFailed(d, prefix) /\ SameKeyWithinTTL(c, d, prefix)) =>
            /\ calls[c].sub[prefix].how = "hit"
            /\ calls[c].sub[prefix].data = <<>>
            /\ DOMAIN calls[c].sub[prefix].settled = {}
            /\ calls[c].pc = "returned"

\* both gas services failed in call 1; call 2, half a TTL later, returned the
\* empty list without calling them
C35_Witness ==
    /\ AllFailed(1, "gas")
    /\ calls[2].op = "gas"
    /\ calls[2].startedAt = calls[1].startedAt + ClockStep
    /\ calls[2].sub["gas"].how = "hit"
    /\ calls[2].result.gasData = <<>>

\* the same for getBestDEXRoutes
C35_WitnessRoutes ==
    /\ AllFailed(1, "dex")
    /\ calls[2].op = "dex"
    /\ calls[2].sub["dex"].how = "hit"
    /\ calls[2].result.dexRoutes = <<>>

\* one TTL after the failed call the entry has expired and the services are
\* called again
C35_WitnessExpired ==
    /\ AllFailed(1, "gas")
    /\ calls[2].op = "gas"
    /\ calls[2].startedAt - calls[1].startedAt = cacheTimeout
    /\ calls[2].sub["gas"].how = "miss"

-----------------------------------------------------------------------------
(* Properties of the age of cached quotes, checked under StaleSpec *)

\* the times at which the quote was received from its service
ReceivedAt(q) ==
    { rec.at : rec \in { r \in cacheOps : r.op = "received" /\ r.call = q.call
                                            /\ r.from = q.source } }

\* the quotes call c returned from the cache
ServedFromCache(c) ==
    IF calls[c].sub["gas"].how = "hit"
    THEN { calls[c].sub["gas"].data[i] : i \in 1..Len(calls[c].sub["gas"].data) }
    ELSE {}

\* C31: every quote a call returns from the cache was received from its
\* service less than one TTL before the call returned, also when the fan-out
\* that stored it waited for another service.  (A call served from the cache
\* returns at the time it is made.)
C31_CachedQuotesYoungerThanTTL ==
    \A c \in CallIds : \A q \in ServedFromCache(c) :
        \A t \in ReceivedAt(q) : calls[c].startedAt - t < cacheTimeout

\* what holds: a quote returned from the cache was received during the
\* fan-out of the call that stored it, which was made before this call
C31_ReceivedDuringFanOut ==
    \A c \in CallIds : \A q \in ServedFromCache(c) :
        /\ q.call \in Earlier(c)
        /\ ReceivedAt(q) # {}
        /\ \A t \in ReceivedAt(q) :
              calls[q.call].startedAt <= t /\ t <= calls[c].startedAt

\* Blocknative answered call 1 at once, Infura one TTL later, and the list
\* was stored then; call 2, made at that time, returned the Blocknative quote
\* from the cache one TTL after it was received
C31_Witness ==
    /\ calls[1].sub["gas"].how = "miss"
    /\ ReceivedOp(1, "gas", "Blocknative", 0) \in cacheOps
    /\ ReceivedOp(1, "gas", "Infura", cacheTimeout) \in cacheOps
    /\ calls[2].sub["gas"].how = "hit"
    /\ calls[2].startedAt = cacheTimeout
    /\ \E q \in ServedFromCache(2) : q.source = "Blocknative" /\ q.call = 1

\* both services answered at once: a call half a TTL later returned quotes
\* half a TTL old
C31_WitnessFresh ==
    /\ ReceivedOp(1, "gas", "Blocknative", 0) \in cacheOps
    /\ ReceivedOp(1, "gas", "Infura", 0) \in cacheOps
    /\ calls[2].sub["gas"].how = "hit"
    /\ calls[2].startedAt = ClockStep

-----------------------------------------------------------------------------
(* Properties of the eviction loops, checked under CleanupSpec *)

\* C32: for one orchestrator at most one eviction loop is ever active, however
\* many times startCacheCleanup is invoked.
C32_AtMostOneLoop ==
    Len(cleanupTimers) <= 1

\* what holds: every startCacheCleanup adds an interval of its own and no
\* interval is ever cleared
C32_LoopsOnlyAdded ==
    [][/\ Len(cleanupTimers') >= Len(cleanupTimers)
       /\ StartCacheCleanup => Len(cleanupTimers') = Len(cleanupTimers) + 1]_vars

\* startCacheCleanup was called twice: two intervals are active and the
\* callback of each has already run
C32_Witness ==
    /\ Len(cleanupTimers) = 2
    /\ \A i \in 1..2 : cleanupTimers[i] >= 2 * cacheTimeout
    /\ now >= cacheTimeout

\* the keys a step removed from the cache
Removed(before, after) ==
    { key \in CacheKeys : before[key] # None /\ after[key] = None }

\* C39: a pass removes only entries older than the TTL, which a read already
\* refuses; an entry exactly one TTL old is not removed by the pass and is not
\* returned by a read.
C39_PassRemovesOnlyExpired ==
    [][/\ CleanupPasses =>
            \A key \in CacheKeys :
               /\ key \in Removed(cache, cache') =>
                     /\ now - cache[key].timestamp > cacheTimeout
                     /\ ~Fresh(key)
               /\ (cache[key] # None /\ now - cache[key].timestamp = cacheTimeout)
                     => cache'[key] = cache[key]
       /\ \A c \in CallIds :
            (/\ calls[c].pc = "idle"
             /\ calls'[c].pc # "idle"
             /\ cache[GasKey] # None
             /\ now - cache[GasKey].timestamp = cacheTimeout)
               => calls'[c].sub["gas"].how = "miss"]_vars

\* a pass ran when the entry was exactly one TTL old and kept it, and a call
\* made at that moment was not served from the cache
C39_Witness ==
    /\ Len(cleanupTimers) > 0
    /\ cleanupTimers[1] = now + cacheTimeout
    /\ cleanupTimers[1] > cacheTimeout
    /\ cache[GasKey] # None
    /\ now - cache[GasKey].timestamp = cacheTimeout
    /\ \E c \in CallIds :
          /\ calls[c].pc = "fetching"
          /\ calls[c].startedAt = now
          /\ calls[c].sub["gas"].how = "miss"

\* a pass removed an entry that was older than the TTL
C39_WitnessRemoved ==
    /\ cache[GasKey] = None
    /\ [call |-> 0, op |-> "delete", key |-> GasKey] \in cacheOps
    /\ \E c \in CallIds : calls[c].pc = "returned" /\ now - calls[c].startedAt > cacheTimeout

-----------------------------------------------------------------------------
(* Properties of makeRequest across subscribers, checked under RetrySpec *)

\* the attempts of a makeRequest call nobody subscribed to, for the responses
\* in log: it stops at the first "ok" and after retryAttempts failures
RunWithoutSubscribers(log) ==
    /\ Len(log) \in 1..retryAttempts
    /\ \A i \in 1..(Len(log) - 1) : log[i] # "ok"
    /\ log[Len(log)] = "ok" \/ Len(log) = retryAttempts

\* what that call returns or throws
ResultWithoutSubscribers(log) ==
    IF log[Len(log)] = "ok"
    THEN [data |-> "json"]
    ELSE [error |-> ExhaustedError(AttemptError(log[Len(log)]))]

\* the finished makeRequest call made as many attempts, and returned or threw
\* the same, as a call nobody subscribed to does for the same responses
AsWithoutSubscribers ==
    reqPc \in {"resolved", "rejected"} =>
        /\ RunWithoutSubscribers(attemptLog)
        /\ reqResult = ResultWithoutSubscribers(attemptLog)

\* C37: the value returned or the error raised by a fetch, and the number of
\* network attempts it makes, are the same whatever subscribers are
\* registered: none, some, or one that throws.
C37_SubscribersDoNotInterfere == AsWithoutSubscribers

\* what holds: they are the same for every registration in which no
\* subscriber throws
C37_SameUnlessSubscriberThrows ==
    (subscribers.serviceSuccess # "throws" /\ subscribers.serviceError # "throws")
        => AsWithoutSubscribers

\* the single response was a 2xx with a JSON body, for which a call nobody
\* subscribed to returns the data after one attempt; the subscriber to
\* serviceSuccess threw, and so did the one to serviceError: the call made one
\* attempt and failed with the subscriber's error
C37_Witness ==
    /\ subscribers = [serviceSuccess |-> "throws", serviceError |-> "throws"]
    /\ attemptLog = <<"ok">>
    /\ reqPc = "rejected"
    /\ reqResult = [error |-> SubscriberError]

\* a subscriber that returns: the call resolved after one failed attempt and
\* one successful one, as without subscribers
C37_WitnessQuiet ==
    /\ subscribers = [serviceSuccess |-> "quiet", serviceError |-> "quiet"]
    /\ attemptLog = <<"http500", "ok">>
    /\ reqPc = "resolved"
    /\ reqResult = [data |-> "json"]

\* only the subscriber to serviceSuccess throws: three 2xx responses were
\* fetched and the call failed
C37_WitnessThreeFetches ==
    /\ subscribers = [serviceSuccess |-> "throws", serviceError |-> "none"]
    /\ attemptLog = <<"ok", "ok", "ok">>
    /\ reqPc = "rejected"

-----------------------------------------------------------------------------
(* Properties of shutdown, checked under ShutdownSpec *)

CacheEmpty == \A key \in CacheKeys : cache[key] = None

\* the forwarded events that reached a subscriber in this step
Delivered ==
    { k \in (Len(notes) + 1)..Len(notes') : subscribers[notes'[k].event] # "none" }

\* C38: after shutdown() has returned the cache is empty and stays empty, and
\* no subscriber is notified again: a call in flight does not write to the
\* cache when it completes, and no eviction loop keeps running.
C38_QuietAfterShutdown ==
    [][HasShutDown =>
          /\ CacheEmpty
          /\ CacheEmpty'
          /\ Delivered = {}
          /\ ~CleanupPasses]_vars

\* the part that holds: shutdown leaves the cache empty and nobody
\* subscribed, and nobody is notified afterwards
C38_ClearedAndUnsubscribed ==
    [][/\ Shutdown => (CacheEmpty' /\ subscribers' = NoSubscribers)
       /\ HasShutDown => (subscribers = NoSubscribers /\ Delivered = {})]_vars

\* shutdown returned at time 0 while call 1 was waiting for its service; the
\* call then completed and its list is in the cache
C38_Witness ==
    /\ ShutdownOp(0) \in cacheOps
    /\ calls[1].pc = "returned"
    /\ calls[1].sub["gas"].how = "miss"
    /\ [call |-> 1, op |-> "set", key |-> GasKey] \in cacheOps
    /\ cache[GasKey] # None

\* an eviction loop started before shutdown ran its pass after it
C38_WitnessLoopRuns ==
    /\ ShutdownOp(0) \in cacheOps
    /\ Len(cleanupTimers) > 0
    /\ cleanupTimers[1] = 2 * cacheTimeout
    /\ now = cacheTimeout

\* a subscriber was registered, shutdown returned, and a fetch finished
\* afterwards: its event was forwarded to nobody
C38_WitnessNobodyNotified ==
    /\ HasShutDown
    /\ subscribers = NoSubscribers
    /\ reqPc = "resolved"
    /\ Len(notes) = 1
    /\ calls[1].pc = "idle"

-----------------------------------------------------------------------------
(* Properties of the useFeeOptimization hook, checked under HookSpec *)

\* C40: the hook never exposes an analysis that is not null together with an
\* error that is not null, under any sequence or overlap of analyzeSwap calls
\* and any order of completion.
C40_AnalysisOrErrorNotBoth ==
    ~(hook.analysis # None /\ hook.error # None)

\* what holds: a call starts with both cleared, a completion clears the
\* error, and a failure leaves the analysis as it is
C40_ClearedAtStartAndCompletion ==
    [][/\ (\E k \in HookCallIds : HookAnalyzeSwap(k))
            => (hook'.analysis = None /\ hook'.error = None)
       /\ (\E k \in HookCallIds : HookAnalysisComplete(k))
            => (hook'.analysis # None /\ hook'.error = None)
       /\ (\E k \in HookCallIds, e \in ServiceErrors :
              HookAnalysisError(k, e) \/ HookCatches(k, e))
            => (hook'.analysis = hook.analysis /\ hook'.error # None)]_vars

\* while no second call was made the two are never shown together
C40_ExclusiveForOneCall ==
    hookCalls[2] = "idle" => ~(hook.analysis # None /\ hook.error # None)

\* call 2 was made while call 1 was awaited; call 1 completed, then call 2
\* failed: the analysis of call 1 and the error of call 2 are both exposed
C40_Witness ==
    /\ hookCalls[1] = "returned"
    /\ hookCalls[2] = "caught"
    /\ hookCalls[3] = "idle"
    /\ hook.analysis = AnalysisOf(1)
    /\ hook.error = ErrorText(WrappedError(ReduceTypeError).message)
    /\ ~hook.loading

\* the other order: call 2 failed, then call 1 completed and cleared the error
C40_WitnessErrorCleared ==
    /\ hookCalls[1] = "returned"
    /\ hookCalls[2] = "caught"
    /\ hook.analysis = AnalysisOf(1)
    /\ hook.error = None

=============================================================================
